---- MODULE Spec2Model ----
(***************************************************************************)
(* Security analysis core of the backend: the keyword template engine      *)
(* (services/template_analyzer.py), the compliance mapper                  *)
(* (services/compliance_mapper.py) and the versioned persistence of one    *)
(* analysis run (routers/analysis.py).                                     *)
(*                                                                         *)
(* Python strings on which the code performs string operations (lower(),   *)
(* `in`, startswith) are sequences of one-character strings; strings that  *)
(* are only compared or copied are TLA+ strings.  The free-text fields     *)
(* description / attack_vector / details of the templates are never read   *)
(* by the code and are left out of the tables.                             *)
(***************************************************************************)
EXTENDS Integers, Sequences, FiniteSets, TLC

\* ------------------------------------------------------------------------
\* Bounds of the model
\* ------------------------------------------------------------------------
\* number of analyze_with_templates calls in one behaviour of SpecTemplate
MaxCalls == 2

\* number of map_requirements_to_standards calls in one behaviour of SpecMapper
MaxMapCalls == 1

\* number of analysis requests in one behaviour of SpecRun
MaxRuns == 2

\* ------------------------------------------------------------------------
\* Python values
\* ------------------------------------------------------------------------
\* None, and "key not in dict", where a string is expected: one-element
\* tuples that are no string
NULL == <<"<None>">>
ABSENT == <<"<absent>">>

\* an argument of type `list | None`
NoneList == [is_none |-> TRUE, items |-> <<>>]
List(items) == [is_none |-> FALSE, items |-> items]

UpperAlpha ==
  <<"A","B","C","D","E","F","G","H","I","J","K","L","M",
    "N","O","P","Q","R","S","T","U","V","W","X","Y","Z">>
LowerAlpha ==
  <<"a","b","c","d","e","f","g","h","i","j","k","l","m",
    "n","o","p","q","r","s","t","u","v","w","x","y","z">>

\* str.lower() on one character
LowerChar(c) ==
  IF \E i \in 1..26 : UpperAlpha[i] = c
  THEN LowerAlpha[CHOOSE i \in 1..26 : UpperAlpha[i] = c]
  ELSE c

\* str.lower()
Lower(s) == [i \in 1..Len(s) |-> LowerChar(s[i])]

\* Python `sub in s` on strings
Contains(sub, s) ==
  \E i \in 0..(Len(s) - Len(sub)) : SubSeq(s, i + 1, i + Len(sub)) = sub

\* s.startswith(p)
StartsWith(s, p) == Len(p) <= Len(s) /\ SubSeq(s, 1, Len(p)) = p

Min(a, b) == IF a <= b THEN a ELSE b

SeqMax(S) == CHOOSE x \in S : \A y \in S : y <= x

RECURSIVE Concat(_)
\* concatenation of a sequence of sequences
Concat(ss) == IF ss = <<>> THEN <<>> ELSE Head(ss) \o Concat(Tail(ss))

\* the elements of a sequence
Range(s) == {s[i] : i \in 1..Len(s)}

DigitChar == <<"0","1","2","3","4","5","6","7","8","9">>

RECURSIVE Decimal(_)
\* str(n) for n >= 0
Decimal(n) ==
  IF n < 10 THEN <<DigitChar[n + 1]>>
  ELSE Decimal(n \div 10) \o <<DigitChar[(n % 10) + 1]>>

\* format(n, "03d"): decimal, zero-padded on the left to at least 3 digits
Fmt03d(n) ==
  LET d == Decimal(n)
  IN  IF Len(d) >= 3 THEN d ELSE [i \in 1..(3 - Len(d)) |-> "0"] \o d

\* _id: f"{prefix}-{n:03d}"
_id(prefix, n) == prefix \o <<"-">> \o Fmt03d(n)

\* ------------------------------------------------------------------------
\* Static tables
\* ------------------------------------------------------------------------
\* "Authentication & Access Control"
CatAuth == <<"A","u","t","h","e","n","t","i","c","a","t","i","o","n"," ","&"," ","A","c","c","e","s","s"," ","C","o","n","t","r","o","l">>
\* "Data Protection"
CatData == <<"D","a","t","a"," ","P","r","o","t","e","c","t","i","o","n">>
\* "Input Validation"
CatInput == <<"I","n","p","u","t"," ","V","a","l","i","d","a","t","i","o","n">>
\* "Audit Logging"
CatAudit == <<"A","u","d","i","t"," ","L","o","g","g","i","n","g">>
\* "Financial & Transaction Security"
CatFinancial == <<"F","i","n","a","n","c","i","a","l"," ","&"," ","T","r","a","n","s","a","c","t","i","o","n"," ","S","e","c","u","r","i","t","y">>
\* "Regulatory Compliance"
CatRegulatory == <<"R","e","g","u","l","a","t","o","r","y"," ","C","o","m","p","l","i","a","n","c","e">>
\* "Secure Architecture"
CatArchitecture == <<"S","e","c","u","r","e"," ","A","r","c","h","i","t","e","c","t","u","r","e">>

PATTERNS ==
  << [name |-> "authentication",
      \* password, login, register, authentication, sign in, sign up, reset, credentials
      keywords |-> <<
        <<"p","a","s","s","w","o","r","d">>,
        <<"l","o","g","i","n">>,
        <<"r","e","g","i","s","t","e","r">>,
        <<"a","u","t","h","e","n","t","i","c","a","t","i","o","n">>,
        <<"s","i","g","n"," ","i","n">>,
        <<"s","i","g","n"," ","u","p">>,
        <<"r","e","s","e","t">>,
        <<"c","r","e","d","e","n","t","i","a","l","s">>
      >>,
      abuse_cases |-> <<
        [threat |-> "Credential Stuffing Attack", actor |-> "External Attacker", impact |-> "Critical",
         likelihood |-> "High", stride_category |-> "Spoofing"],
        [threat |-> "Brute Force Password Attack", actor |-> "External Attacker", impact |-> "High",
         likelihood |-> "High", stride_category |-> "Spoofing"],
        [threat |-> "Session Hijacking", actor |-> "External Attacker", impact |-> "Critical",
         likelihood |-> "Medium", stride_category |-> "Spoofing"],
        [threat |-> "Password Reset Token Exploitation", actor |-> "External Attacker", impact |-> "Critical",
         likelihood |-> "Medium", stride_category |-> "Spoofing"],
        [threat |-> "Account Enumeration", actor |-> "External Attacker", impact |-> "Medium",
         likelihood |-> "High", stride_category |-> "Information Disclosure"]
      >>,
      requirements |-> <<
        [text |-> "Implement adaptive MFA for all users",
         priority |-> "Critical", category |-> CatAuth],
        [text |-> "Hash passwords using Argon2id with memory cost >=64MB",
         priority |-> "Critical", category |-> CatAuth],
        [text |-> "Enforce password policy: 12+ chars, breach database check",
         priority |-> "High", category |-> CatAuth],
        [text |-> "Implement progressive account lockout",
         priority |-> "High", category |-> CatAuth],
        [text |-> "Generate cryptographically secure password reset tokens (256-bit)",
         priority |-> "High", category |-> CatAuth]
      >>],
     [name |-> "pii_ssn",
      \* ssn, social security, pii, personal information, date of birth, dob
      keywords |-> <<
        <<"s","s","n">>,
        <<"s","o","c","i","a","l"," ","s","e","c","u","r","i","t","y">>,
        <<"p","i","i">>,
        <<"p","e","r","s","o","n","a","l"," ","i","n","f","o","r","m","a","t","i","o","n">>,
        <<"d","a","t","e"," ","o","f"," ","b","i","r","t","h">>,
        <<"d","o","b">>
      >>,
      abuse_cases |-> <<
        [threat |-> "SSN Harvesting Attack", actor |-> "External Attacker", impact |-> "Critical",
         likelihood |-> "High", stride_category |-> "Information Disclosure"],
        [threat |-> "SSN Enumeration via Error Messages", actor |-> "External Attacker", impact |-> "High",
         likelihood |-> "Medium", stride_category |-> "Information Disclosure"],
        [threat |-> "Identity Theft via SSN Exposure in Logs", actor |-> "Malicious Insider", impact |-> "Critical",
         likelihood |-> "Medium", stride_category |-> "Information Disclosure"]
      >>,
      requirements |-> <<
        [text |-> "Encrypt all PII at rest using AES-256-GCM",
         priority |-> "Critical", category |-> CatData],
        [text |-> "Implement field-level encryption for SSN and DOB",
         priority |-> "Critical", category |-> CatData],
        [text |-> "Apply data masking for all non-production environments",
         priority |-> "High", category |-> CatData],
        [text |-> "Configure PII detection scanning for all data stores",
         priority |-> "Medium", category |-> CatData]
      >>],
     [name |-> "payment",
      \* credit card, payment, visa, mastercard, card number, pan, cvv
      keywords |-> <<
        <<"c","r","e","d","i","t"," ","c","a","r","d">>,
        <<"p","a","y","m","e","n","t">>,
        <<"v","i","s","a">>,
        <<"m","a","s","t","e","r","c","a","r","d">>,
        <<"c","a","r","d"," ","n","u","m","b","e","r">>,
        <<"p","a","n">>,
        <<"c","v","v">>
      >>,
      abuse_cases |-> <<
        [threat |-> "Credit Card Skimming (Magecart)", actor |-> "External Attacker", impact |-> "Critical",
         likelihood |-> "Medium", stride_category |-> "Information Disclosure"],
        [threat |-> "Payment Fraud via Stolen Cards", actor |-> "External Attacker", impact |-> "High",
         likelihood |-> "High", stride_category |-> "Spoofing"],
        [threat |-> "Transaction Manipulation", actor |-> "External Attacker", impact |-> "Critical",
         likelihood |-> "Medium", stride_category |-> "Tampering"]
      >>,
      requirements |-> <<
        [text |-> "Never store full PAN - use PCI-certified tokenization",
         priority |-> "Critical", category |-> CatFinancial],
        [text |-> "Implement PCI DSS v4.0 controls for cardholder data",
         priority |-> "Critical", category |-> CatRegulatory],
        [text |-> "Deploy real-time fraud detection with ML-based scoring",
         priority |-> "Critical", category |-> CatFinancial],
        [text |-> "Implement secure payment page isolation",
         priority |-> "Critical", category |-> CatFinancial]
      >>],
     [name |-> "file_upload",
      \* upload, file, document, attachment, receipt, image
      keywords |-> <<
        <<"u","p","l","o","a","d">>,
        <<"f","i","l","e">>,
        <<"d","o","c","u","m","e","n","t">>,
        <<"a","t","t","a","c","h","m","e","n","t">>,
        <<"r","e","c","e","i","p","t">>,
        <<"i","m","a","g","e">>
      >>,
      abuse_cases |-> <<
        [threat |-> "Malware Upload", actor |-> "External Attacker", impact |-> "Critical",
         likelihood |-> "High", stride_category |-> "Tampering"],
        [threat |-> "Web Shell Upload", actor |-> "External Attacker", impact |-> "Critical",
         likelihood |-> "Medium", stride_category |-> "Elevation of Privilege"],
        [threat |-> "Path Traversal via Filename", actor |-> "External Attacker", impact |-> "High",
         likelihood |-> "Medium", stride_category |-> "Tampering"]
      >>,
      requirements |-> <<
        [text |-> "Validate file uploads: type whitelist, magic bytes, size limits, AV scan",
         priority |-> "Critical", category |-> CatInput],
        [text |-> "Validate and sanitize all file paths to prevent path traversal",
         priority |-> "High", category |-> CatInput],
        [text |-> "Implement request size limits on all upload endpoints",
         priority |-> "High", category |-> CatInput]
      >>],
     [name |-> "wire_transfer",
      \* wire transfer, routing number, bank account, transfer, ach
      keywords |-> <<
        <<"w","i","r","e"," ","t","r","a","n","s","f","e","r">>,
        <<"r","o","u","t","i","n","g"," ","n","u","m","b","e","r">>,
        <<"b","a","n","k"," ","a","c","c","o","u","n","t">>,
        <<"t","r","a","n","s","f","e","r">>,
        <<"a","c","h">>
      >>,
      abuse_cases |-> <<
        [threat |-> "Business Email Compromise (BEC)", actor |-> "External Attacker", impact |-> "Critical",
         likelihood |-> "High", stride_category |-> "Spoofing"],
        [threat |-> "Wire Transfer Redirection", actor |-> "External Attacker", impact |-> "Critical",
         likelihood |-> "Medium", stride_category |-> "Tampering"]
      >>,
      requirements |-> <<
        [text |-> "Require dual authorization for wire transfers >$10,000",
         priority |-> "Critical", category |-> CatFinancial],
        [text |-> "Implement out-of-band verification for high-risk transactions",
         priority |-> "High", category |-> CatFinancial],
        [text |-> "Deploy beneficiary verification with cooling-off period",
         priority |-> "High", category |-> CatFinancial]
      >>],
     [name |-> "health_data",
      \* medical, health, hsa, diagnosis, treatment, hipaa, phi, patient
      keywords |-> <<
        <<"m","e","d","i","c","a","l">>,
        <<"h","e","a","l","t","h">>,
        <<"h","s","a">>,
        <<"d","i","a","g","n","o","s","i","s">>,
        <<"t","r","e","a","t","m","e","n","t">>,
        <<"h","i","p","a","a">>,
        <<"p","h","i">>,
        <<"p","a","t","i","e","n","t">>
      >>,
      abuse_cases |-> <<
        [threat |-> "PHI Data Breach", actor |-> "External Attacker", impact |-> "Critical",
         likelihood |-> "Medium", stride_category |-> "Information Disclosure"],
        [threat |-> "Medical Identity Theft", actor |-> "External Attacker", impact |-> "Critical",
         likelihood |-> "Medium", stride_category |-> "Spoofing"]
      >>,
      requirements |-> <<
        [text |-> "Deploy HIPAA Security Rule technical safeguards for PHI",
         priority |-> "Critical", category |-> CatRegulatory],
        [text |-> "Log all access to health records with full audit trail",
         priority |-> "Critical", category |-> CatAudit],
        [text |-> "Retain security logs for 6 years (HIPAA requirement)",
         priority |-> "High", category |-> CatAudit]
      >>],
     [name |-> "financial_data",
      \* investment, portfolio, financial, retirement, beneficiary, account balance
      keywords |-> <<
        <<"i","n","v","e","s","t","m","e","n","t">>,
        <<"p","o","r","t","f","o","l","i","o">>,
        <<"f","i","n","a","n","c","i","a","l">>,
        <<"r","e","t","i","r","e","m","e","n","t">>,
        <<"b","e","n","e","f","i","c","i","a","r","y">>,
        <<"a","c","c","o","u","n","t"," ","b","a","l","a","n","c","e">>
      >>,
      abuse_cases |-> <<
        [threat |-> "Mass Data Exfiltration", actor |-> "Malicious Insider", impact |-> "Critical",
         likelihood |-> "Medium", stride_category |-> "Information Disclosure"]
      >>,
      requirements |-> <<
        [text |-> "Implement SOX IT controls with segregation of duties",
         priority |-> "Critical", category |-> CatRegulatory],
        [text |-> "Configure GLBA Safeguards Rule controls",
         priority |-> "High", category |-> CatRegulatory],
        [text |-> "Implement data loss prevention (DLP) at egress points",
         priority |-> "High", category |-> CatData]
      >>] >>

BASELINE_REQUIREMENTS ==
  << [text |-> "Enforce TLS 1.3 for all data in transit",
      priority |-> "Critical", category |-> CatData],
     [text |-> "Implement strict input validation whitelist on all user inputs",
      priority |-> "Critical", category |-> CatInput],
     [text |-> "Use parameterized queries for all database operations",
      priority |-> "Critical", category |-> CatInput],
     [text |-> "Log all authentication events with full context",
      priority |-> "Critical", category |-> CatAudit],
     [text |-> "Implement tamper-evident logging with cryptographic chaining",
      priority |-> "High", category |-> CatAudit],
     [text |-> "Deploy Content Security Policy (CSP) with strict-dynamic",
      priority |-> "High", category |-> CatInput],
     [text |-> "Implement secrets management (e.g., Vault)",
      priority |-> "Critical", category |-> CatArchitecture],
     [text |-> "Implement zero-trust network architecture",
      priority |-> "High", category |-> CatArchitecture] >>

STANDARD_CATEGORY_MAP ==
  << [name |-> <<"O","W","A","S","P","_","A","S","V","S">>,  \* OWASP_ASVS
      categories |-> <<
        [category |-> CatAuth, prefixes |-> <<<<"V","2">>, <<"V","3">>, <<"V","4">>>>],  \* V2, V3, V4
        [category |-> CatData, prefixes |-> <<<<"V","6">>, <<"V","8">>>>],  \* V6, V8
        [category |-> CatInput, prefixes |-> <<<<"V","5">>>>],  \* V5
        [category |-> CatAudit, prefixes |-> <<<<"V","7">>>>],  \* V7
        [category |-> CatFinancial, prefixes |-> <<<<"V","6">>, <<"V","1","1">>>>],  \* V6, V11
        [category |-> CatRegulatory, prefixes |-> <<<<"V","1","0">>>>],  \* V10
        [category |-> CatArchitecture, prefixes |-> <<<<"V","1">>, <<"V","1","0">>, <<"V","1","4">>>>]  \* V1, V10, V14
      >>],
     [name |-> <<"N","I","S","T","_","8","0","0","_","5","3">>,  \* NIST_800_53
      categories |-> <<
        [category |-> CatAuth, prefixes |-> <<<<"A","C">>, <<"I","A">>>>],  \* AC, IA
        [category |-> CatData, prefixes |-> <<<<"S","C">>, <<"M","P">>>>],  \* SC, MP
        [category |-> CatInput, prefixes |-> <<<<"S","I">>>>],  \* SI
        [category |-> CatAudit, prefixes |-> <<<<"A","U">>>>],  \* AU
        [category |-> CatFinancial, prefixes |-> <<<<"S","C">>, <<"A","C">>>>],  \* SC, AC
        [category |-> CatRegulatory, prefixes |-> <<<<"C","A">>, <<"P","L">>>>],  \* CA, PL
        [category |-> CatArchitecture, prefixes |-> <<<<"S","A">>, <<"S","C">>>>]  \* SA, SC
      >>],
     [name |-> <<"I","S","O","_","2","7","0","0","1">>,  \* ISO_27001
      categories |-> <<
        [category |-> CatAuth, prefixes |-> <<<<"A",".","9">>>>],  \* A.9
        [category |-> CatData, prefixes |-> <<<<"A",".","1","0">>, <<"A",".","1","8">>>>],  \* A.10, A.18
        [category |-> CatInput, prefixes |-> <<<<"A",".","1","4">>>>],  \* A.14
        [category |-> CatAudit, prefixes |-> <<<<"A",".","1","2">>>>],  \* A.12
        [category |-> CatFinancial, prefixes |-> <<<<"A",".","1","0">>, <<"A",".","1","4">>>>],  \* A.10, A.14
        [category |-> CatRegulatory, prefixes |-> <<<<"A",".","1","8">>>>],  \* A.18
        [category |-> CatArchitecture, prefixes |-> <<<<"A",".","1","3">>, <<"A",".","1","4">>>>]  \* A.13, A.14
      >>],
     [name |-> <<"P","C","I","_","D","S","S">>,  \* PCI_DSS
      categories |-> <<
        [category |-> CatAuth, prefixes |-> <<<<"R","e","q"," ","7">>, <<"R","e","q"," ","8">>>>],  \* Req 7, Req 8
        [category |-> CatData, prefixes |-> <<<<"R","e","q"," ","3">>, <<"R","e","q"," ","4">>>>],  \* Req 3, Req 4
        [category |-> CatInput, prefixes |-> <<<<"R","e","q"," ","6">>>>],  \* Req 6
        [category |-> CatAudit, prefixes |-> <<<<"R","e","q"," ","1","0">>>>],  \* Req 10
        [category |-> CatFinancial, prefixes |-> <<<<"R","e","q"," ","3">>, <<"R","e","q"," ","4">>>>],  \* Req 3, Req 4
        [category |-> CatRegulatory, prefixes |-> <<<<"R","e","q"," ","1","2">>>>],  \* Req 12
        [category |-> CatArchitecture, prefixes |-> <<<<"R","e","q"," ","1">>, <<"R","e","q"," ","2">>>>]  \* Req 1, Req 2
      >>],
     [name |-> <<"H","I","P","A","A">>,  \* HIPAA
      categories |-> <<
        [category |-> CatAuth, prefixes |-> <<<<"1","6","4",".","3","1","2","(","d",")">>, <<"1","6","4",".","3","1","2","(","a",")">>>>],  \* 164.312(d), 164.312(a)
        [category |-> CatData, prefixes |-> <<<<"1","6","4",".","3","1","2","(","a",")","(","2",")","(","i","v",")">>, <<"1","6","4",".","3","1","2","(","e",")">>>>],  \* 164.312(a)(2)(iv), 164.312(e)
        [category |-> CatInput, prefixes |-> <<<<"1","6","4",".","3","1","2","(","c",")">>>>],  \* 164.312(c)
        [category |-> CatAudit, prefixes |-> <<<<"1","6","4",".","3","1","2","(","b",")">>>>],  \* 164.312(b)
        [category |-> CatRegulatory, prefixes |-> <<<<"1","6","4",".","3","0","8">>, <<"1","6","4",".","3","1","6">>>>],  \* 164.308, 164.316
        [category |-> CatArchitecture, prefixes |-> <<<<"1","6","4",".","3","1","2","(","e",")">>>>]  \* 164.312(e)
      >>],
     [name |-> <<"S","O","X">>,  \* SOX
      categories |-> <<
        [category |-> CatAuth, prefixes |-> <<<<"I","T","G","C","-","A","C">>>>],  \* ITGC-AC
        [category |-> CatData, prefixes |-> <<<<"I","T","G","C","-","D","P">>>>],  \* ITGC-DP
        [category |-> CatAudit, prefixes |-> <<<<"I","T","G","C","-","A","L">>>>],  \* ITGC-AL
        [category |-> CatFinancial, prefixes |-> <<<<"I","T","G","C","-","F","C">>>>],  \* ITGC-FC
        [category |-> CatRegulatory, prefixes |-> <<<<"I","T","G","C","-","C","M">>>>],  \* ITGC-CM
        [category |-> CatArchitecture, prefixes |-> <<<<"I","T","G","C","-","S","A">>>>]  \* ITGC-SA
      >>],
     [name |-> <<"G","D","P","R">>,  \* GDPR
      categories |-> <<
        [category |-> CatAuth, prefixes |-> <<<<"A","r","t"," ","2","5">>, <<"A","r","t"," ","3","2">>>>],  \* Art 25, Art 32
        [category |-> CatData, prefixes |-> <<<<"A","r","t"," ","5">>, <<"A","r","t"," ","3","2">>>>],  \* Art 5, Art 32
        [category |-> CatAudit, prefixes |-> <<<<"A","r","t"," ","3","0">>>>],  \* Art 30
        [category |-> CatRegulatory, prefixes |-> <<<<"A","r","t"," ","3","5">>, <<"A","r","t"," ","3","7">>>>]  \* Art 35, Art 37
      >>] >>

\* ------------------------------------------------------------------------
\* State
\* ------------------------------------------------------------------------
VARIABLES
  acId,    \* the "id" entry of every abuse-case dict of PATTERNS
  reqId,   \* the "id" entry of every requirement dict of PATTERNS and
           \* of BASELINE_REQUIREMENTS
  calls,   \* the analyze_with_templates calls made so far, with their results
  dataFiles,  \* the control catalogs data/<standard>.json that exist
  mapCalls,   \* the map_requirements_to_standards calls made so far
  custom_std_data,     \* custom_std_data of the project: None or a list
  runs,                 \* per request slot, the run of run_analysis in it
  security_analyses,    \* committed rows of table security_analyses
  compliance_mappings,  \* committed rows of table compliance_mappings
  next_id,              \* the next primary key of a SecurityAnalysis
  started,              \* number of requests started
  succeeded,            \* the story runs that succeeded: [story, id]
  projects,             \* committed rows of table projects (their ids)
  user_stories,         \* committed rows of table user_stories (their ids)
  webhook_posts         \* the POSTs fire_webhooks has sent to webhook urls

vars == <<acId, reqId, calls, dataFiles, mapCalls, custom_std_data, runs,
          security_analyses, compliance_mappings, next_id, started, succeeded,
          projects, user_stories, webhook_posts>>

\* ------------------------------------------------------------------------
\* Template engine (services/template_analyzer.py)
\* ------------------------------------------------------------------------
\* The dicts of the tables are Python objects; a list built by the engine
\* holds references to them.  A reference is <<p, i>>: the i-th dict of
\* pattern p, with p = 0 for BASELINE_REQUIREMENTS.
AcKeys ==
  UNION {{<<p, i>> : i \in 1..Len(PATTERNS[p].abuse_cases)} : p \in 1..Len(PATTERNS)}

ReqKeys ==
  UNION {{<<p, i>> : i \in 1..Len(PATTERNS[p].requirements)} : p \in 1..Len(PATTERNS)}
  \cup {<<0, i>> : i \in 1..Len(BASELINE_REQUIREMENTS)}

AcTemplate(k) == PATTERNS[k[1]].abuse_cases[k[2]]

ReqTemplate(k) ==
  IF k[1] = 0 THEN BASELINE_REQUIREMENTS[k[2]] ELSE PATTERNS[k[1]].requirements[k[2]]

\* the abuse-case dict behind a reference, as it reads under the ids `ids`
AbuseCaseDict(k, ids) ==
  [id |-> ids[k], threat |-> AcTemplate(k).threat, actor |-> AcTemplate(k).actor,
   impact |-> AcTemplate(k).impact, likelihood |-> AcTemplate(k).likelihood,
   stride_category |-> AcTemplate(k).stride_category]

\* the requirement dict behind a reference, as it reads under the ids `ids`
RequirementDict(k, ids) ==
  [id |-> ids[k], text |-> ReqTemplate(k).text, priority |-> ReqTemplate(k).priority,
   category |-> ReqTemplate(k).category]

\* line 121: f"{title} {description} {acceptance_criteria or ''}".lower()
SearchText(title, description, acceptance_criteria) ==
  Lower(title \o <<" ">> \o description \o <<" ">>
        \o (IF acceptance_criteria = NULL THEN <<>> ELSE acceptance_criteria))

\* mutant: all(kw in text ...) instead of any(...)
PatternMatches_all_keywords(p, text) ==
  \A j \in 1..Len(PATTERNS[p].keywords) : Contains(PATTERNS[p].keywords[j], text)

\* line 129: any(kw in text for kw in pattern_data["keywords"])
PatternMatches(p, text) ==
  \E j \in 1..Len(PATTERNS[p].keywords) : Contains(PATTERNS[p].keywords[j], text)

\* the patterns the loop of line 128 detects, in PATTERNS.items() order
DetectedPatterns(text) ==
  SelectSeq([p \in 1..Len(PATTERNS) |-> p], LAMBDA p : PatternMatches(p, text))

\* lines 131-132: the abuse_cases list after the loop
MatchedAbuseCases(detected) ==
  Concat([j \in 1..Len(detected) |->
            [i \in 1..Len(PATTERNS[detected[j]].abuse_cases) |-> <<detected[j], i>>]])

\* mutant: the patterns are visited in reverse order
MatchedRequirements_reversed(detected) ==
  Concat([j \in 1..Len(detected) |->
            [i \in 1..Len(PATTERNS[detected[Len(detected) + 1 - j]].requirements) |->
               <<detected[Len(detected) + 1 - j], i>>]])

\* lines 133-134: the requirements list after the loop
MatchedRequirements(detected) ==
  Concat([j \in 1..Len(detected) |->
            [i \in 1..Len(PATTERNS[detected[j]].requirements) |-> <<detected[j], i>>]])

\* mutant: the baseline is not appended
ExtendBaseline_skipped(requirements) == requirements

\* line 137: requirements.extend(BASELINE_REQUIREMENTS)
ExtendBaseline(requirements) ==
  requirements \o [i \in 1..Len(BASELINE_REQUIREMENTS) |-> <<0, i>>]

RECURSIVE DedupFrom(_, _, _)
DedupFrom(requirements, seen_texts, unique_reqs) ==
  IF requirements = <<>> THEN unique_reqs
  ELSE LET r == Head(requirements)
       IN  IF ReqTemplate(r).text \notin seen_texts
           THEN DedupFrom(Tail(requirements), seen_texts \cup {ReqTemplate(r).text},
                          Append(unique_reqs, r))
           ELSE DedupFrom(Tail(requirements), seen_texts, unique_reqs)

RECURSIVE DedupFrom_prepend(_, _, _)
DedupFrom_prepend(requirements, seen_texts, unique_reqs) ==
  IF requirements = <<>> THEN unique_reqs
  ELSE LET r == Head(requirements)
       IN  IF ReqTemplate(r).text \notin seen_texts
           THEN DedupFrom_prepend(Tail(requirements),
                                  seen_texts \cup {ReqTemplate(r).text},
                                  <<r>> \o unique_reqs)
           ELSE DedupFrom_prepend(Tail(requirements), seen_texts, unique_reqs)

\* mutant: unique_reqs.insert(0, r) instead of unique_reqs.append(r)
DedupByText_prepend(requirements) == DedupFrom_prepend(requirements, {}, <<>>)

\* lines 140-146: deduplicate by text
DedupByText(requirements) == DedupFrom(requirements, {}, <<>>)

\* mutant: enumerate(list) instead of enumerate(list, 1)
AssignIds_zero_based(ids, list, prefix) ==
  [k \in DOMAIN ids |->
     IF k \in Range(list)
     THEN _id(prefix, SeqMax({i \in 1..Len(list) : list[i] = k}) - 1)
     ELSE ids[k]]

\* lines 149-152: for i, d in enumerate(list, 1): d["id"] = _id(prefix, i)
AssignIds(ids, list, prefix) ==
  [k \in DOMAIN ids |->
     IF k \in Range(list)
     THEN _id(prefix, SeqMax({i \in 1..Len(list) : list[i] = k}))
     ELSE ids[k]]

RECURSIVE CategoryOrder(_, _)
\* keys of the stride_categories dict, in insertion order
CategoryOrder(abuse_cases, keys) ==
  IF abuse_cases = <<>> THEN keys
  ELSE LET cat == AcTemplate(Head(abuse_cases)).stride_category
       IN  CategoryOrder(Tail(abuse_cases),
                         IF cat \in Range(keys) THEN keys ELSE Append(keys, cat))

\* line 165: the text after the count in a StrideThreat's description
ThreatsIdentified ==
  <<" ","t","h","r","e","a","t","(","s",")"," ","i","d","e","n","t","i","f","i","e","d"," ",
    "i","n"," ","t","h","i","s"," ","c","a","t","e","g","o","r","y">>

\* mutant: the group reports its last abuse case
StrideThreat_last_case(cat, cases) ==
  [category |-> cat,
   threat |-> AcTemplate(cases[Len(cases)]).threat,
   description |-> Decimal(Len(cases)) \o ThreatsIdentified,
   risk_level |-> AcTemplate(cases[Len(cases)]).impact]

\* lines 161-167: the StrideThreat of one category and its abuse cases
StrideThreat(cat, cases) ==
  [category |-> cat,
   threat |-> AcTemplate(cases[1]).threat,
   description |-> Decimal(Len(cases)) \o ThreatsIdentified,
   risk_level |-> AcTemplate(cases[1]).impact]

\* mutant: one STRIDE threat per abuse case
StrideThreats_per_case(abuse_cases) ==
  [j \in 1..Len(abuse_cases) |->
     StrideThreat(AcTemplate(abuse_cases[j]).stride_category, <<abuse_cases[j]>>)]

\* lines 155-168: group the abuse cases by stride_category, one StrideThreat
\* per group in the insertion order of the categories
StrideThreats(abuse_cases) ==
  LET keys == CategoryOrder(abuse_cases, <<>>)
      cases(cat) ==
        SelectSeq(abuse_cases, LAMBDA k : AcTemplate(k).stride_category = cat)
  IN  [j \in 1..Len(keys) |-> StrideThreat(keys[j], cases(keys[j]))]

\* mutant: the score is not capped
RiskScore_uncapped(abuse_cases, detected) ==
  LET critical == Cardinality({i \in 1..Len(abuse_cases) :
                                 AcTemplate(abuse_cases[i]).impact = "Critical"})
      high == Cardinality({i \in 1..Len(abuse_cases) :
                             AcTemplate(abuse_cases[i]).impact = "High"})
  IN  critical * 12 + high * 6 + Cardinality(Range(detected)) * 8

\* lines 171-173
RiskScore(abuse_cases, detected) ==
  LET critical == Cardinality({i \in 1..Len(abuse_cases) :
                                 AcTemplate(abuse_cases[i]).impact = "Critical"})
      high == Cardinality({i \in 1..Len(abuse_cases) :
                             AcTemplate(abuse_cases[i]).impact = "High"})
  IN  Min(100, critical * 12 + high * 6 + Cardinality(Range(detected)) * 8)

\* The dict analyze_with_templates returns; abuse_cases and
\* security_requirements are lists of references into the tables.
analyze_with_templates(title, description, acceptance_criteria) ==
  LET text == SearchText(title, description, acceptance_criteria)
      detected == DetectedPatterns(text)
      abuse_cases == MatchedAbuseCases(detected)
      requirements == DedupByText(ExtendBaseline(MatchedRequirements(detected)))
  IN  [abuse_cases |-> abuse_cases,
       stride_threats |-> StrideThreats(abuse_cases),
       security_requirements |-> requirements,
       risk_score |-> RiskScore(abuse_cases, detected)]

\* what a caller reads in a returned dict while the tables hold acIds, reqIds
ResultView(result, acIds, reqIds) ==
  [abuse_cases |->
     [i \in 1..Len(result.abuse_cases) |-> AbuseCaseDict(result.abuse_cases[i], acIds)],
   stride_threats |-> result.stride_threats,
   security_requirements |->
     [i \in 1..Len(result.security_requirements) |->
        RequirementDict(result.security_requirements[i], reqIds)],
   risk_score |-> result.risk_score]

\* ------------------------------------------------------------------------
\* Compliance mapper (services/compliance_mapper.py)
\* ------------------------------------------------------------------------
\* dict.get(key, default) on a value read from a dict
Get(value, default) == IF value = ABSENT THEN default ELSE value

\* relevance_score is a float with one decimal; the model keeps its tenths
Score08 == 8
Score06 == 6
Score07 == 7

\* "Custom"
CustomName == <<"C","u","s","t","o","m">>

\* " control "
ControlInfix == <<" ","c","o","n","t","r","o","l"," ">>

\* mutant: the catalog is read in reverse order
_load_standard_reversed(name) ==
  IF Lower(name) \in DOMAIN dataFiles
  THEN [j \in 1..Len(dataFiles[Lower(name)]) |->
          dataFiles[Lower(name)][Len(dataFiles[Lower(name)]) + 1 - j]]
  ELSE <<>>

\* lines 74-79: the controls of data/<name.lower()>.json, [] without file
_load_standard(name) ==
  IF Lower(name) \in DOMAIN dataFiles THEN dataFiles[Lower(name)] ELSE <<>>

\* line 92: list(STANDARD_CATEGORY_MAP.keys())
AllStandards == [i \in 1..Len(STANDARD_CATEGORY_MAP) |-> STANDARD_CATEGORY_MAP[i].name]

\* mutant: the standard is looked up without regard to case
CategoryMap_case_insensitive(std_name) ==
  IF \E i \in 1..Len(STANDARD_CATEGORY_MAP) :
       Lower(STANDARD_CATEGORY_MAP[i].name) = Lower(std_name)
  THEN STANDARD_CATEGORY_MAP[CHOOSE i \in 1..Len(STANDARD_CATEGORY_MAP) :
                               Lower(STANDARD_CATEGORY_MAP[i].name) = Lower(std_name)].categories
  ELSE <<>>

\* line 101: STANDARD_CATEGORY_MAP.get(std_name, {})
CategoryMap(std_name) ==
  IF \E i \in 1..Len(STANDARD_CATEGORY_MAP) : STANDARD_CATEGORY_MAP[i].name = std_name
  THEN STANDARD_CATEGORY_MAP[CHOOSE i \in 1..Len(STANDARD_CATEGORY_MAP) :
                               STANDARD_CATEGORY_MAP[i].name = std_name].categories
  ELSE <<>>

\* mutant: the prefixes of the category are visited in reverse order
MatchedControls_reversed(category_map, req_category) ==
  IF \E j \in 1..Len(category_map) : category_map[j].category = req_category
  THEN LET prefixes == category_map[CHOOSE j \in 1..Len(category_map) :
                                      category_map[j].category = req_category].prefixes
       IN  [k \in 1..Len(prefixes) |-> prefixes[Len(prefixes) + 1 - k]]
  ELSE <<>>

\* line 102: category_map.get(req_category, [])
MatchedControls(category_map, req_category) ==
  IF \E j \in 1..Len(category_map) : category_map[j].category = req_category
  THEN category_map[CHOOSE j \in 1..Len(category_map) :
                      category_map[j].category = req_category].prefixes
  ELSE <<>>

\* mutant: every matching control is mapped, without the cap of 2
PrefixMappings_uncapped(req_id, std_name, controls_data, control_prefix) ==
  LET matched == SelectSeq(controls_data,
                           LAMBDA c : StartsWith(Get(c.id, <<>>), control_prefix))
  IN  IF matched # <<>>
      THEN [j \in 1..Len(matched) |->
              [requirement_id |-> req_id,
               standard_name |-> std_name,
               control_id |-> matched[j].id,
               control_title |-> Get(matched[j].title, <<>>),
               relevance_score |-> Score08]]
      ELSE << [requirement_id |-> req_id,
               standard_name |-> std_name,
               control_id |-> control_prefix,
               control_title |-> std_name \o ControlInfix \o control_prefix,
               relevance_score |-> Score06] >>

\* lines 109-127: the mappings of one prefix
PrefixMappings(req_id, std_name, controls_data, control_prefix) ==
  LET matched == SelectSeq(controls_data,
                           LAMBDA c : StartsWith(Get(c.id, <<>>), control_prefix))
  IN  IF matched # <<>>
      THEN [j \in 1..Min(2, Len(matched)) |->
              [requirement_id |-> req_id,
               standard_name |-> std_name,
               control_id |-> matched[j].id,
               control_title |-> Get(matched[j].title, <<>>),
               relevance_score |-> Score08]]
      ELSE << [requirement_id |-> req_id,
               standard_name |-> std_name,
               control_id |-> control_prefix,
               control_title |-> std_name \o ControlInfix \o control_prefix,
               relevance_score |-> Score06] >>

\* mutant: a prefix without catalog control is skipped
StandardMappings_no_synthetic(req, std_name) ==
  LET req_id == Get(req.id, <<>>)
      req_category == Get(req.category, <<>>)
      controls_data == _load_standard(std_name)
      matched_controls ==
        SelectSeq(MatchedControls(CategoryMap(std_name), req_category),
                  LAMBDA p : \E c \in 1..Len(controls_data) :
                               StartsWith(Get(controls_data[c].id, <<>>), p))
  IN  Concat([j \in 1..Len(matched_controls) |->
                PrefixMappings(req_id, std_name, controls_data, matched_controls[j])])

\* lines 100-127: the mappings of one requirement and one standard
StandardMappings(req, std_name) ==
  LET req_id == Get(req.id, <<>>)
      req_category == Get(req.category, <<>>)
      matched_controls == MatchedControls(CategoryMap(std_name), req_category)
      controls_data == _load_standard(std_name)
  IN  Concat([j \in 1..Len(matched_controls) |->
                PrefixMappings(req_id, std_name, controls_data, matched_controls[j])])

\* mutant: only "control category in requirement category" is tested
CustomControlMatches_one_way(control, req_category) ==
  LET ctrl_cat == Lower(Get(control.category, <<>>))
      req_cat_lower == Lower(req_category)
  IN  ctrl_cat # <<>> /\ Contains(ctrl_cat, req_cat_lower)

\* lines 133-135: the test on one control of a custom standard
CustomControlMatches(control, req_category) ==
  LET ctrl_cat == Lower(Get(control.category, <<>>))
      req_cat_lower == Lower(req_category)
  IN  ctrl_cat # <<>> /\ (Contains(ctrl_cat, req_cat_lower) \/ Contains(req_cat_lower, ctrl_cat))

\* lines 133-134 call .lower() on the control's category and on the
\* requirement's category: AttributeError when either is None
CustomControlRaises(control, req_category) ==
  control.category = NULL \/ req_category = NULL

\* lines 130-142: the mappings of one requirement to the custom standards;
\* every custom standard dict carries "controls" (routers/analysis.py line 29)
CustomMappings(req, custom_standards) ==
  IF custom_standards.is_none THEN <<>>
  ELSE Concat([s \in 1..Len(custom_standards.items) |->
         LET cs == custom_standards.items[s]
             hits == SelectSeq(cs.controls,
                               LAMBDA control :
                                 CustomControlMatches(control, Get(req.category, <<>>)))
         IN  [j \in 1..Len(hits) |->
                [requirement_id |-> Get(req.id, <<>>),
                 standard_name |-> Get(cs.name, CustomName),
                 control_id |-> Get(hits[j].control_id, <<>>),
                 control_title |-> Get(hits[j].title, <<>>),
                 relevance_score |-> Score07]]])

\* some iteration of the loops of lines 96-142 raises
MapperRaises(security_requirements, custom_standards) ==
  /\ ~custom_standards.is_none
  /\ \E i \in 1..Len(security_requirements), s \in 1..Len(custom_standards.items) :
       \E c \in 1..Len(custom_standards.items[s].controls) :
         CustomControlRaises(custom_standards.items[s].controls[c],
                             Get(security_requirements[i].category, <<>>))

\* mutant: a mapping whose (requirement_id, standard_name, control_id) was
\* already emitted is left out
map_requirements_to_standards_unique(security_requirements, standards, custom_standards) ==
  LET stds == IF standards.is_none THEN AllStandards ELSE standards.items
      all == Concat([i \in 1..Len(security_requirements) |->
                       Concat([j \in 1..Len(stds) |->
                                 StandardMappings(security_requirements[i], stds[j])])
                       \o CustomMappings(security_requirements[i], custom_standards)])
      kept == SelectSeq([j \in 1..Len(all) |-> j],
                        LAMBDA j : \A k \in 1..(j - 1) :
                          \/ all[k].requirement_id # all[j].requirement_id
                          \/ all[k].standard_name # all[j].standard_name
                          \/ all[k].control_id # all[j].control_id)
  IN  IF MapperRaises(security_requirements, custom_standards)
      THEN [raised |-> TRUE, mappings |-> <<>>]
      ELSE [raised |-> FALSE, mappings |-> [n \in 1..Len(kept) |-> all[kept[n]]]]

\* lines 82-144; the outcome is the returned list or the exception
map_requirements_to_standards(security_requirements, standards, custom_standards) ==
  LET stds == IF standards.is_none THEN AllStandards ELSE standards.items
  IN  IF MapperRaises(security_requirements, custom_standards)
      THEN [raised |-> TRUE, mappings |-> <<>>]
      ELSE [raised |-> FALSE,
            mappings |->
              Concat([i \in 1..Len(security_requirements) |->
                        Concat([j \in 1..Len(stds) |->
                                  StandardMappings(security_requirements[i], stds[j])])
                        \o CustomMappings(security_requirements[i], custom_standards)])]

\* ------------------------------------------------------------------------
\* One analysis run and its persistence (routers/analysis.py)
\* ------------------------------------------------------------------------
\* The request slots of the server; the coroutines of all requests run on
\* one event loop and interleave at every await.
Requests == 1..2

\* the project of the stories
ProjectId == 1

\* the stories of the project: story 1 is "Password Reset" / "Show my
\* orders" / None, story 2 is "" / "Pay by credit card" / ""
Stories ==
  << [id |-> 1,
      title |-> <<"P","a","s","s","w","o","r","d"," ","R","e","s","e","t">>,
      description |-> <<"S","h","o","w"," ","m","y"," ","o","r","d","e","r","s">>,
      acceptance_criteria |-> NULL],
     [id |-> 2,
      title |-> <<>>,
      description |->
        <<"P","a","y"," ","b","y"," ","c","r","e","d","i","t"," ","c","a","r","d">>,
      acceptance_criteria |-> <<>>] >>

\* line 43: analyze_with_templates(story.title, story.description,
\* story.acceptance_criteria), per story
StoryTemplates ==
  [s \in 1..Len(Stories) |->
     analyze_with_templates(Stories[s].title, Stories[s].description,
                            Stories[s].acceptance_criteria)]

\* "claude-sonnet-4-20250514" (line 40) and "template-fallback" (line 44)
ClaudeModel == "claude-sonnet-4-20250514"
TemplateFallback == "template-fallback"

\* what the request slot of an idle server holds
IdleRun ==
  [pc |-> "idle", kind |-> "none", story |-> 0, position |-> 0,
   max_version |-> 0, ai_model |-> "",
   analysis_data |-> [kind |-> "none", result |-> <<>>],
   analysis |-> <<>>, error |-> "",
   flushed |-> <<>>, results |-> <<>>,
   webhook |-> "", response |-> <<>>]

\* analysis_data as the run reads it now: the template engine's result holds
\* references into the tables, the parsed LLM reply holds its own dicts
LiveData(analysis_data) ==
  IF analysis_data.kind = "template"
  THEN ResultView(analysis_data.result, acId, reqId)
  ELSE analysis_data.result

\* mutant: the table has no unique constraint
SameStoryVersion_unconstrained(a, b) == FALSE

\* UniqueConstraint("user_story_id", "version"): the key two rows may not share
SameStoryVersion(a, b) ==
  a.user_story_id = b.user_story_id /\ a.version = b.version

\* the rows a request has inserted in its transaction and not yet committed
FlushedRows(run) == {run.flushed[j].analysis : j \in 1..Len(run.flushed)}

\* the places of a request at which its transaction is open
OpenTransaction == {"read_max", "ai", "flushing", "committing"}

\* the rows other transactions have inserted and not yet committed
UncommittedOf(others) ==
  UNION {FlushedRows(runs[o]) : o \in {o \in others : runs[o].pc \in OpenTransaction}}

\* lines 76-84 and 27-29: the story and its project are found, the custom
\* standards of the project are read
StartRun(r, s) ==
  /\ runs[r].pc = "idle"
  /\ Stories[s].id \in user_stories
  /\ ProjectId \in projects
  /\ started < MaxRuns
  /\ started' = started + 1
  /\ runs' = [runs EXCEPT ![r] = [IdleRun EXCEPT !.pc = "read_max", !.kind = "single",
                                                !.story = s]]
  /\ UNCHANGED <<projects, user_stories, webhook_posts, succeeded,
                 acId, reqId, calls, dataFiles, mapCalls, custom_std_data,
                 security_analyses, compliance_mappings, next_id>>

\* lines 104-114: the project and its stories are found (there are some);
\* results = [] and the loop enters its first story
StartBulk(r) ==
  /\ runs[r].pc = "idle"
  /\ started < MaxRuns
  /\ started' = started + 1
  /\ runs' = [runs EXCEPT ![r] = [IdleRun EXCEPT !.pc = "read_max", !.kind = "bulk",
                                                !.position = 1,
                                                !.story = Stories[1].id]]
  /\ UNCHANGED <<projects, user_stories, webhook_posts, succeeded,
                 acId, reqId, calls, dataFiles, mapCalls, custom_std_data,
                 security_analyses, compliance_mappings, next_id>>

\* lines 31-33: select max(version) where user_story_id == story.id, or 0;
\* the select reads the committed rows and those of its own transaction
ReadMaxVersion(r) ==
  /\ runs[r].pc = "read_max"
  /\ LET versions == {a.version : a \in {a \in security_analyses \cup FlushedRows(runs[r]) :
                                            a.user_story_id = runs[r].story}}
     IN  runs' = [runs EXCEPT ![r].pc = "ai",
                              ![r].max_version =
                                 IF versions = {} THEN 0 ELSE SeqMax(versions)]
  /\ UNCHANGED <<projects, user_stories, webhook_posts, succeeded,
                 acId, reqId, calls, dataFiles, mapCalls, custom_std_data,
                 security_analyses, compliance_mappings, next_id, started>>

\* lines 46-54: the SecurityAnalysis built from analysis_data; db.add and the
\* INSERT of db.flush() serialise the JSON columns as they read at that moment
NewAnalysis(id, story, max_version, data, ai_model) ==
  [id |-> id,
   user_story_id |-> story,
   version |-> max_version + 1,
   abuse_cases |-> data.abuse_cases,
   stride_threats |-> data.stride_threats,
   security_requirements |-> data.security_requirements,
   risk_score |-> data.risk_score,
   ai_model_used |-> ai_model]

\* lines 36-40, 46-56: analyze_with_claude returns; the row is built and the
\* flush sends its INSERT
ClaudeReturns(r, data) ==
  /\ runs[r].pc = "ai"
  /\ runs' = [runs EXCEPT
       ![r].pc = "flushing",
       ![r].ai_model = ClaudeModel,
       ![r].analysis_data = [kind |-> "ai", result |-> data],
       ![r].analysis = <<NewAnalysis(next_id, runs[r].story, runs[r].max_version,
                                     data, ClaudeModel)>>]
  /\ next_id' = next_id + 1
  /\ UNCHANGED <<projects, user_stories, webhook_posts, succeeded,
                 acId, reqId, calls, dataFiles, mapCalls, custom_std_data,
                 security_analyses, compliance_mappings, started>>

\* lines 41-44, 46-56: analyze_with_claude raises; the template engine runs,
\* the row is built and the flush sends its INSERT
ClaudeFails(r) ==
  /\ runs[r].pc = "ai"
  /\ LET result == StoryTemplates[runs[r].story]
         acIds == AssignIds(acId, result.abuse_cases, <<"A","C">>)
         reqIds == AssignIds(reqId, result.security_requirements, <<"S","R">>)
     IN  /\ acId' = acIds
         /\ reqId' = reqIds
         /\ runs' = [runs EXCEPT
              ![r].pc = "flushing",
              ![r].ai_model = TemplateFallback,
              ![r].analysis_data = [kind |-> "template", result |-> result],
              ![r].analysis =
                 <<NewAnalysis(next_id, runs[r].story, runs[r].max_version,
                               ResultView(result, acIds, reqIds), TemplateFallback)>>]
  /\ next_id' = next_id + 1
  /\ UNCHANGED <<projects, user_stories, webhook_posts, succeeded,
                 calls, dataFiles, mapCalls, custom_std_data,
                 security_analyses, compliance_mappings, started>>

\* line 118 and line 121: the entry bulk_analyze appends for a story
SuccessEntry(story, analysis) ==
  [story_id |-> story, status |-> "success", analysis_id |-> analysis.id, error |-> ""]
ErrorEntry(story, error) ==
  [story_id |-> story, status |-> "error", analysis_id |-> 0, error |-> error]

\* lines 114-123: the entry of the story is appended; the loop takes the
\* next story, or leaves for db.commit() after the last
StoryDone(run, entry) ==
  IF run.position < Len(Stories)
  THEN [run EXCEPT !.results = Append(@, entry),
                   !.position = @ + 1,
                   !.story = Stories[run.position + 1].id,
                   !.pc = "read_max",
                   !.max_version = 0, !.ai_model = "",
                   !.analysis_data = IdleRun.analysis_data,
                   !.analysis = <<>>]
  ELSE [run EXCEPT !.results = Append(@, entry), !.pc = "committing"]

\* lines 58-72 and their callers: `out` is the outcome of the mapper.  The
\* mapping rows are added to the session.  An exception of the mapper leaves
\* _analyze_single_story after the INSERT of the analysis: run_analysis ends
\* without commit (line 86), bulk_analyze catches it (lines 119-121) and
\* goes on in the same transaction.
AfterFlush(run, out) ==
  LET flushed == [run EXCEPT
                    !.flushed = Append(@, [analysis |-> run.analysis[1],
                                           mappings |-> out.mappings])]
  IN  IF run.kind = "bulk"
      THEN StoryDone(flushed, IF out.raised
                              THEN ErrorEntry(run.story, "AttributeError")
                              ELSE SuccessEntry(run.story, run.analysis[1]))
      ELSE IF out.raised
           THEN [flushed EXCEPT !.pc = "failed", !.error = "AttributeError"]
           ELSE [flushed EXCEPT !.pc = "committing"]

\* line 56 returns: the story of the row exists (ForeignKey of
\* user_story_id), no committed row has the key, and no other transaction
\* holds an uncommitted row with it (the INSERT waits for that transaction).
\* Lines 58-61 then map the requirements as analysis_data reads now.
FlushDone(r) ==
  /\ runs[r].pc = "flushing"
  /\ runs[r].story \in user_stories
  /\ \A a \in security_analyses \cup UncommittedOf(Requests \ {r}) :
       ~SameStoryVersion(a, runs[r].analysis[1])
  /\ runs' = [runs EXCEPT ![r] =
       AfterFlush(runs[r],
                  map_requirements_to_standards(
                    LiveData(runs[r].analysis_data).security_requirements,
                    NoneList, custom_std_data))]
  /\ UNCHANGED <<projects, user_stories, webhook_posts, succeeded,
                 acId, reqId, calls, dataFiles, mapCalls, custom_std_data,
                 security_analyses, compliance_mappings, next_id, started>>

\* mutant: bulk_analyze records the IntegrityError as the story's entry and
\* the batch goes on to its commit
AfterFlushError_swallowed(run) ==
  IF run.kind = "bulk"
  THEN StoryDone([run EXCEPT !.flushed = <<>>], ErrorEntry(run.story, "IntegrityError"))
  ELSE [run EXCEPT !.pc = "failed", !.error = "IntegrityError", !.flushed = <<>>]

\* The flush that failed has rolled back the transaction of the session, with
\* every row flushed before.  run_analysis lets the IntegrityError pass (line
\* 86).  bulk_analyze catches it (line 119), but the session refuses every
\* further statement and the db.commit() of line 123 until a rollback that
\* the code never issues: the batch ends with an error response as well.
AfterFlushError(run) ==
  [run EXCEPT !.pc = "failed", !.error = "IntegrityError", !.flushed = <<>>]

\* line 56 raises IntegrityError: a committed row has the key
FlushConflict(r) ==
  /\ runs[r].pc = "flushing"
  /\ \E a \in security_analyses : SameStoryVersion(a, runs[r].analysis[1])
  /\ runs' = [runs EXCEPT ![r] = AfterFlushError(runs[r])]
  /\ UNCHANGED <<projects, user_stories, webhook_posts, succeeded,
                 acId, reqId, calls, dataFiles, mapCalls, custom_std_data,
                 security_analyses, compliance_mappings, next_id, started>>

\* the analyses the response of a request reports as successful: the
\* analysis returned (line 100), the "success" entries of results (line 134)
ReportedSuccess(run) ==
  IF run.kind = "bulk"
  THEN {[story |-> run.results[j].story_id, id |-> run.results[j].analysis_id] :
          j \in {j \in 1..Len(run.results) : run.results[j].status = "success"}}
  ELSE {[story |-> run.story, id |-> run.analysis[1].id]}

\* mutant: a story keeps one analysis row, which a later run overwrites
Inserted_overwriting(table, rows) ==
  {IF \E b \in rows : b.user_story_id = a.user_story_id
   THEN [(CHOOSE b \in rows : b.user_story_id = a.user_story_id) EXCEPT !.id = a.id]
   ELSE a : a \in table}
  \cup {b \in rows : \A a \in table : a.user_story_id # b.user_story_id}

\* the table after the COMMIT of a transaction that inserted `rows`: the
\* code issues INSERTs only (db.add of new objects, lines 46-55)
Inserted(table, rows) == table \cup rows

\* mutant: the mapping rows are sent one by one and only the first arrives
\* with the analysis
MappingRows_first_only(analysis, mappings) ==
  {[analysis_id |-> analysis.id, position |-> j, mapping |-> mappings[j]] :
     j \in {j \in 1..Len(mappings) : j = 1}}

\* lines 62-70: the ComplianceMapping rows added to the session for an
\* analysis, one per mapping, in the order of the list
MappingRows(analysis, mappings) ==
  {[analysis_id |-> analysis.id, position |-> j, mapping |-> mappings[j]] :
     j \in 1..Len(mappings)}

\* line 87, line 123: db.commit() makes the analysis rows of the transaction
\* and their mapping rows durable
Commit(r) ==
  /\ runs[r].pc = "committing"
  /\ security_analyses' = Inserted(security_analyses, FlushedRows(runs[r]))
  /\ compliance_mappings' =
       compliance_mappings \cup
         UNION {MappingRows(runs[r].flushed[k].analysis, runs[r].flushed[k].mappings) :
                  k \in 1..Len(runs[r].flushed)}
  /\ succeeded' = succeeded \cup ReportedSuccess(runs[r])
  /\ runs' = [runs EXCEPT ![r].pc = "committed"]
  /\ UNCHANGED <<projects, user_stories, webhook_posts,
                 acId, reqId, calls, dataFiles, mapCalls, custom_std_data,
                 next_id, started>>

\* lines 114-123: the batch is abandoned between two stories; the only
\* db.commit() of bulk_analyze is behind the loop (line 123), so the
\* transaction ends without it
Abandon(r) ==
  /\ runs[r].kind = "bulk"
  /\ runs[r].pc = "read_max"
  /\ runs[r].position > 1
  /\ runs' = [runs EXCEPT ![r].pc = "abandoned", ![r].flushed = <<>>]
  /\ UNCHANGED <<projects, user_stories, webhook_posts, succeeded,
                 acId, reqId, calls, dataFiles, mapCalls, custom_std_data,
                 security_analyses, compliance_mappings, next_id, started>>

RECURSIVE VersionDesc(_)
\* order_by(SecurityAnalysis.version.desc()) on a set of rows
VersionDesc(rows) ==
  IF rows = {} THEN <<>>
  ELSE LET top == CHOOSE a \in rows : \A b \in rows : b.version <= a.version
       IN  <<top>> \o VersionDesc(rows \ {top})

\* lines 137-151: list_analyses selects the committed analyses of the story,
\* latest version first; the response is kept in `results`
ListAnalyses(r, s) ==
  /\ runs[r].pc = "idle"
  /\ started < MaxRuns
  /\ started' = started + 1
  /\ runs' = [runs EXCEPT ![r] =
       [IdleRun EXCEPT !.pc = "listed", !.kind = "list", !.story = s,
                       !.results = VersionDesc({a \in security_analyses :
                                                  a.user_story_id = s})]]
  /\ UNCHANGED <<projects, user_stories, webhook_posts, succeeded,
                 acId, reqId, calls, dataFiles, mapCalls, custom_std_data,
                 security_analyses, compliance_mappings, next_id>>

\* webhook_service.py line 30: the event of run_analysis
AnalysisCompleted == "analysis.completed"

\* What the try block of lines 91-96 can meet:
\*  "arguments_raise": story.project_id raises; the commit of line 87 has
\*     expired `story` if the session factory expires on commit
\*  "lookup_raises": the select of webhook_service.py line 24 raises
\*  "none_subscribed": no active webhook of the project lists the event
\*  "delivered": a webhook lists it and the POST returns
\*  "delivery_fails": the POST raises (caught at line 53)
\*  "commit_raises": the POST returns and db.commit() of line 56 raises
WebhookOutcomes ==
  {"arguments_raise", "lookup_raises", "none_subscribed", "delivered",
   "delivery_fails", "commit_raises"}

\* the outcomes in which fire_webhooks has sent a POST (lines 41-50)
Posting == {"delivered", "delivery_fails", "commit_raises"}

\* lines 93-96: the payload of the event
WebhookData(story, analysis) ==
  [event |-> AnalysisCompleted, analysis_id |-> analysis.id, story_id |-> story,
   risk_score |-> analysis.risk_score, status |-> "success"]

\* mutant: an exception of fire_webhooks leaves the handler
AfterWebhooks_propagating(run, outcome, refreshed) ==
  IF outcome \in {"arguments_raise", "lookup_raises", "delivery_fails", "commit_raises"}
  THEN [run EXCEPT !.pc = "failed", !.webhook = outcome, !.error = outcome]
  ELSE [run EXCEPT !.pc = "responded", !.webhook = outcome, !.response = <<refreshed>>]

\* lines 91-100: whatever the try block met, the except of line 97 logs it
\* and line 100 returns the analysis as refreshed at line 88
AfterWebhooks(run, outcome, refreshed) ==
  [run EXCEPT !.pc = "responded", !.webhook = outcome, !.response = <<refreshed>>]

\* lines 88-100 of run_analysis after its commit: db.refresh(analysis) reads
\* the committed row, fire_webhooks runs and the analysis is returned
FireWebhooks(r, outcome) ==
  /\ runs[r].pc = "committed"
  /\ runs[r].kind = "single"
  /\ \E refreshed \in security_analyses :
       /\ refreshed.id = runs[r].analysis[1].id
       /\ runs' = [runs EXCEPT ![r] = AfterWebhooks(runs[r], outcome, refreshed)]
       /\ webhook_posts' =
            IF outcome \in Posting
            THEN webhook_posts \cup {WebhookData(runs[r].story, refreshed)}
            ELSE webhook_posts
  /\ UNCHANGED <<projects, user_stories, succeeded, acId, reqId, calls, dataFiles,
                 mapCalls, custom_std_data, security_analyses,
                 compliance_mappings, next_id, started>>

\* line 56 raises IntegrityError: the story of the row has been deleted
\* since line 77 read it (models/analysis.py line 16, the ForeignKey of
\* user_story_id)
FlushForeignKey(r) ==
  /\ runs[r].pc = "flushing"
  /\ runs[r].story \notin user_stories
  /\ runs' = [runs EXCEPT ![r] = AfterFlushError(runs[r])]
  /\ UNCHANGED <<projects, user_stories, webhook_posts, succeeded, acId, reqId,
                 calls, dataFiles, mapCalls, custom_std_data,
                 security_analyses, compliance_mappings, next_id, started>>

\* routers/user_stories.py lines 55-67, create_story: the project is found
\* (_verify_project), the story is added and committed; the ForeignKey of
\* project_id (models/user_story.py line 15) refuses it without the project
CreateStory(s) ==
  /\ ProjectId \in projects
  /\ Stories[s].id \notin user_stories
  /\ user_stories' = user_stories \cup {Stories[s].id}
  /\ UNCHANGED <<projects, webhook_posts, succeeded, acId, reqId, calls, dataFiles,
                 mapCalls, custom_std_data, runs, security_analyses,
                 compliance_mappings, next_id, started>>

\* mutant: the foreign key of the child rows has no ondelete="CASCADE" and
\* the rows stay
OnDeleteCascade_keeping(children, key, parents) == children

\* ForeignKey(..., ondelete="CASCADE") (models/analysis.py line 16,
\* models/compliance_mapping.py line 14): the child rows left when the rows
\* with the ids `parents` are deleted
OnDeleteCascade(children, key, parents) ==
  {c \in children : c[key] \notin parents}

\* routers/projects.py lines 85-92, delete_project: the project is deleted
\* and committed, and with it its stories (models/user_story.py line 15),
\* their analyses and the mappings of those.  The DELETE of a story waits
\* for every open transaction that has inserted an analysis of it.
DeleteProject ==
  /\ ProjectId \in projects
  /\ UncommittedOf(Requests) = {}
  /\ projects' = projects \ {ProjectId}
  /\ user_stories' = {}
  /\ security_analyses' = OnDeleteCascade(security_analyses, "user_story_id", user_stories)
  /\ compliance_mappings' =
       OnDeleteCascade(compliance_mappings, "analysis_id",
                       {a.id : a \in security_analyses \
                          OnDeleteCascade(security_analyses, "user_story_id", user_stories)})
  /\ UNCHANGED <<webhook_posts, succeeded, acId, reqId, calls, dataFiles,
                 mapCalls, custom_std_data, runs, next_id, started>>

\* lines 88-100 and 125-134, or the error response: the request is over
Finish(r) ==
  /\ runs[r].pc \in {"committed", "responded", "failed", "abandoned", "listed"}
  /\ runs' = [runs EXCEPT ![r] = IdleRun]
  /\ UNCHANGED <<projects, user_stories, webhook_posts, succeeded,
                 acId, reqId, calls, dataFiles, mapCalls, custom_std_data,
                 security_analyses, compliance_mappings, next_id, started>>

\* ------------------------------------------------------------------------
\* Inputs of the template engine
\* ------------------------------------------------------------------------
\* "", "Password Reset", "Show my orders"
Titles ==
  { <<>>,
    <<"P","a","s","s","w","o","r","d"," ","R","e","s","e","t">>,
    <<"S","h","o","w"," ","m","y"," ","o","r","d","e","r","s">> }

\* "", "Pay by credit card", "login ssn visa upload ach hsa portfolio"
Descriptions ==
  { <<>>,
    <<"P","a","y"," ","b","y"," ","c","r","e","d","i","t"," ","c","a","r","d">>,
    <<"l","o","g","i","n"," ","s","s","n"," ","v","i","s","a"," ","u","p","l","o","a","d"," ",
      "a","c","h"," ","h","s","a"," ","p","o","r","t","f","o","l","i","o">> }

\* None, "", "Company profile"
AcceptanceCriteria ==
  { NULL,
    <<>>,
    <<"C","o","m","p","a","n","y"," ","p","r","o","f","i","l","e">> }

\* ------------------------------------------------------------------------
\* Specification of the template engine: a process calling it repeatedly
\* ------------------------------------------------------------------------
InitTables ==
  /\ acId = [k \in AcKeys |-> ABSENT]
  /\ reqId = [k \in ReqKeys |-> ABSENT]

\* no catalog file exists
NoDataFiles == [name \in {} |-> <<>>]

\* nothing has been requested; the database holds the project and its
\* stories and no analysis
InitServer ==
  /\ runs = [r \in Requests |-> IdleRun]
  /\ security_analyses = {}
  /\ compliance_mappings = {}
  /\ next_id = 1
  /\ started = 0
  /\ succeeded = {}
  /\ projects = {ProjectId}
  /\ user_stories = {Stories[s].id : s \in 1..Len(Stories)}
  /\ webhook_posts = {}

InitTemplate ==
  /\ InitTables
  /\ calls = <<>>
  /\ mapCalls = <<>>
  /\ dataFiles = NoDataFiles
  /\ custom_std_data = NoneList
  /\ InitServer

\* one call of analyze_with_templates (lines 120-180)
Analyze(title, description, acceptance_criteria) ==
  LET result == analyze_with_templates(title, description, acceptance_criteria)
      acIds == AssignIds(acId, result.abuse_cases, <<"A","C">>)
      reqIds == AssignIds(reqId, result.security_requirements, <<"S","R">>)
  IN  /\ Len(calls) < MaxCalls
      /\ acId' = acIds
      /\ reqId' = reqIds
      /\ calls' = Append(calls,
                         [title |-> title, description |-> description,
                          acceptance_criteria |-> acceptance_criteria,
                          result |-> result,
                          returned |-> ResultView(result, acIds, reqIds)])
      /\ UNCHANGED <<projects, user_stories, webhook_posts, succeeded,
                 dataFiles, mapCalls, custom_std_data, runs,
                     security_analyses, compliance_mappings, next_id, started>>

NextTemplate ==
  \E t \in Titles, d \in Descriptions, a \in AcceptanceCriteria : Analyze(t, d, a)

SpecTemplate == InitTemplate /\ [][NextTemplate]_vars

\* ------------------------------------------------------------------------
\* Inputs of the mapper
\* ------------------------------------------------------------------------
\* "OWASP_ASVS", "owasp_asvs", "GDPR", "UNKNOWN"
OWASP_ASVS == <<"O","W","A","S","P","_","A","S","V","S">>
owasp_asvs == <<"o","w","a","s","p","_","a","s","v","s">>
GDPR == <<"G","D","P","R">>
UNKNOWN == <<"U","N","K","N","O","W","N">>

\* data/owasp_asvs.json holding the controls V2-1, V2-2, V3-1
CatalogScenarioC ==
  [name \in {owasp_asvs} |->
     << [id |-> <<"V","2","-","1">>, title |-> <<"p","w","d">>],
        [id |-> <<"V","2","-","2">>, title |-> <<"m","f","a">>],
        [id |-> <<"V","3","-","1">>, title |-> <<"s","e","s","s">>] >>]

\* data/owasp_asvs.json holding V10.1, V2.1, one control without id, V2.2,
\* V2.3 (without title), V1.1, V14.1, V14.2
CatalogOverlap ==
  [name \in {owasp_asvs} |->
     << [id |-> <<"V","1","0",".","1">>, title |-> <<"c","o","d","e">>],
        [id |-> <<"V","2",".","1">>, title |-> <<"p","w","d">>],
        [id |-> ABSENT, title |-> <<"n","o","n","e">>],
        [id |-> <<"V","2",".","2">>, title |-> <<"m","f","a">>],
        [id |-> <<"V","2",".","3">>, title |-> ABSENT],
        [id |-> <<"V","1",".","1">>, title |-> <<"s","d","l","c">>],
        [id |-> <<"V","1","4",".","1">>, title |-> <<"c","f","g">>],
        [id |-> <<"V","1","4",".","2">>, title |-> <<"d","e","p">>] >>]

Catalogs == {NoDataFiles, CatalogScenarioC, CatalogOverlap}

SR(n) == _id(<<"S","R">>, n)

ReqAuth == [id |-> SR(1), category |-> CatAuth]
ReqArchitecture == [id |-> SR(2), category |-> CatArchitecture]
ReqFinancial == [id |-> SR(3), category |-> CatFinancial]
ReqAudit == [id |-> SR(4), category |-> CatAudit]
\* a requirement dict with neither "id" nor "category"
ReqBare == [id |-> ABSENT, category |-> ABSENT]

RequirementLists ==
  { <<>>,
    <<ReqAuth>>,
    <<ReqBare>>,
    <<ReqArchitecture, ReqAuth>>,
    <<ReqAudit, ReqFinancial>> }

\* None stands for "all built-in standards"
StandardsLists ==
  { NoneList,
    List(<<>>),
    List(<<OWASP_ASVS>>),
    List(<<UNKNOWN, owasp_asvs>>),
    List(<<GDPR, OWASP_ASVS>>) }

\* "Access Control", "Audit Logging and Monitoring", "General"
CtrlAccess ==
  [control_id |-> <<"C","-","1">>, title |-> <<"a","c","c">>,
   category |-> <<"A","c","c","e","s","s"," ","C","o","n","t","r","o","l">>]
CtrlAuditMonitoring ==
  [control_id |-> <<"C","-","2">>, title |-> <<"a","u","d">>,
   category |-> <<"A","U","D","I","T"," ","L","o","g","g","i","n","g"," ",
                  "a","n","d"," ","M","o","n","i","t","o","r","i","n","g">>]
CtrlGeneral ==
  [control_id |-> <<"C","-","3">>, title |-> <<"g","e","n">>,
   category |-> <<"G","e","n","e","r","a","l">>]
\* a control without "category", and one whose category is null
CtrlNoCategory ==
  [control_id |-> <<"C","-","4">>, title |-> <<"n","o","c">>, category |-> ABSENT]
CtrlNullCategory ==
  [control_id |-> <<"C","-","5">>, title |-> <<"n","u","l">>, category |-> NULL]
\* a control whose category is the empty string
CtrlEmptyCategory ==
  [control_id |-> <<"C","-","6">>, title |-> <<"e","m","p">>, category |-> <<>>]

ACME == <<"A","C","M","E">>

CustomStandardsLists ==
  { NoneList,
    List(<<>>),
    List(<<[name |-> ACME, controls |-> <<CtrlAccess, CtrlGeneral>>]>>),
    List(<<[name |-> ABSENT, controls |->
            <<CtrlAuditMonitoring, CtrlNoCategory, CtrlEmptyCategory>>]>>),
    List(<<[name |-> ACME, controls |-> <<CtrlAccess, CtrlNullCategory>>]>>) }

\* ------------------------------------------------------------------------
\* Specification of the mapper: a process calling it on the catalogs present
\* ------------------------------------------------------------------------
InitMapper ==
  /\ InitTables
  /\ calls = <<>>
  /\ mapCalls = <<>>
  /\ dataFiles \in Catalogs
  /\ custom_std_data = NoneList
  /\ InitServer

\* two consecutive calls of map_requirements_to_standards (lines 82-144)
\* with the same arguments; `again` is what the second call returns
Map(security_requirements, standards, custom) ==
  /\ Len(mapCalls) < MaxMapCalls
  /\ mapCalls' = Append(mapCalls,
                        [security_requirements |-> security_requirements,
                         standards |-> standards,
                         custom_standards |-> custom,
                         outcome |-> map_requirements_to_standards(
                                       security_requirements, standards, custom),
                         again |-> map_requirements_to_standards(
                                     security_requirements, standards, custom)])
  /\ UNCHANGED <<projects, user_stories, webhook_posts, succeeded,
                 acId, reqId, calls, dataFiles, custom_std_data, runs,
                 security_analyses, compliance_mappings, next_id, started>>

NextMapper ==
  \E reqs \in RequirementLists, stds \in StandardsLists, cs \in CustomStandardsLists :
    Map(reqs, stds, cs)

SpecMapper == InitMapper /\ [][NextMapper]_vars

\* ------------------------------------------------------------------------
\* Specification of the server: concurrent run_analysis and bulk_analyze
\* requests
\* ------------------------------------------------------------------------
\* a parsed LLM reply; its requirement has "category": null
AiResults ==
  { [abuse_cases |-> <<>>,
     stride_threats |-> <<>>,
     security_requirements |->
       << [id |-> SR(1), text |-> "Log every transfer",
           priority |-> "High", category |-> NULL] >>,
     risk_score |-> 55,
     _model |-> ClaudeModel] }

\* the custom standards of the project, as _analyze_single_story reads them
\* (line 29): None without rows, else one dict per row
ProjectCustomStandards ==
  << NoneList,
     List(<<[name |-> ACME, controls |-> <<CtrlAuditMonitoring, CtrlGeneral>>]>>) >>

InitRun ==
  /\ InitTables
  /\ calls = <<>>
  /\ mapCalls = <<>>
  /\ \/ dataFiles = NoDataFiles /\ custom_std_data = ProjectCustomStandards[1]
     \/ dataFiles = CatalogScenarioC /\ custom_std_data = ProjectCustomStandards[2]
  /\ InitServer

NextRun ==
  \E r \in Requests :
    \/ \E s \in 1..Len(Stories) : StartRun(r, s)
    \/ StartBulk(r)
    \/ \E s \in 1..Len(Stories) : ListAnalyses(r, s)
    \/ ReadMaxVersion(r)
    \/ \E data \in AiResults : ClaudeReturns(r, data)
    \/ ClaudeFails(r)
    \/ FlushDone(r)
    \/ FlushConflict(r)
    \/ Commit(r)
    \/ Abandon(r)
    \/ Finish(r)

SpecRun == InitRun /\ [][NextRun]_vars

\* ------------------------------------------------------------------------
\* Specification of the single-story endpoint: concurrent run_analysis
\* requests with the replies an LLM provider can give and the webhooks
\* ------------------------------------------------------------------------
\* "gpt-4o" (llm_provider.py line 18)
Gpt4o == "gpt-4o"

\* a requirement as the LLM writes it, with its category
ReqLogged ==
  [id |-> SR(1), text |-> "Log every transfer", priority |-> "High",
   category |-> CatAudit]

\* parsed LLM replies (ai_analyzer.py lines 114-116): one of the Anthropic
\* default model whose risk_score is 150, one of an OpenAI provider
\* (settings.llm_provider = "openai", model "gpt-4o")
ReplyOutOfRange ==
  [abuse_cases |-> <<>>, stride_threats |-> <<>>,
   security_requirements |-> <<ReqLogged>>,
   risk_score |-> 150, _model |-> ClaudeModel]
ReplyOpenAI ==
  [abuse_cases |-> <<>>, stride_threats |-> <<>>,
   security_requirements |-> <<ReqLogged>>,
   risk_score |-> 40, _model |-> Gpt4o]
LlmReplies == {ReplyOutOfRange, ReplyOpenAI}

InitSingle ==
  /\ InitTables
  /\ calls = <<>>
  /\ mapCalls = <<>>
  /\ dataFiles = CatalogScenarioC
  /\ custom_std_data = ProjectCustomStandards[2]
  /\ InitServer

NextSingle ==
  \E r \in Requests :
    \/ \E s \in 1..Len(Stories) : StartRun(r, s)
    \/ ReadMaxVersion(r)
    \/ \E data \in LlmReplies : ClaudeReturns(r, data)
    \/ ClaudeFails(r)
    \/ FlushDone(r)
    \/ FlushConflict(r)
    \/ Commit(r)
    \/ \E outcome \in WebhookOutcomes : FireWebhooks(r, outcome)
    \/ runs[r].pc # "committed" /\ Finish(r)

SpecSingle == InitSingle /\ [][NextSingle]_vars

\* ------------------------------------------------------------------------
\* Specification of the project's life: stories are created and analysed
\* while the project is deleted
\* ------------------------------------------------------------------------
\* the project exists with its first story
InitProject ==
  /\ InitTables
  /\ calls = <<>>
  /\ mapCalls = <<>>
  /\ dataFiles = CatalogScenarioC
  /\ custom_std_data = ProjectCustomStandards[2]
  /\ runs = [r \in Requests |-> IdleRun]
  /\ security_analyses = {}
  /\ compliance_mappings = {}
  /\ next_id = 1
  /\ started = 0
  /\ succeeded = {}
  /\ projects = {ProjectId}
  /\ user_stories = {Stories[1].id}
  /\ webhook_posts = {}

NextProject ==
  \/ \E s \in 1..Len(Stories) : CreateStory(s)
  \/ DeleteProject
  \/ \E r \in Requests :
       \/ \E s \in 1..Len(Stories) : StartRun(r, s)
       \/ ReadMaxVersion(r)
       \/ \E data \in LlmReplies : ClaudeReturns(r, data)
       \/ ClaudeFails(r)
       \/ FlushDone(r)
       \/ FlushConflict(r)
       \/ FlushForeignKey(r)
       \/ Commit(r)
       \/ Finish(r)

SpecProject == InitProject /\ [][NextProject]_vars

\* ------------------------------------------------------------------------
\* Properties of the template engine
\* ------------------------------------------------------------------------
\* the result of the i-th call as it read when the call returned
Returned(i) == calls[i].returned

BaselineTexts == {BASELINE_REQUIREMENTS[j].text : j \in 1..Len(BASELINE_REQUIREMENTS)}

\* C1: every call returns a result whose security_requirements contain every
\* baseline requirement text, have at least as many entries as the baseline
\* set, and have pairwise distinct texts.
C1_BaselineAlwaysPresent ==
  \A i \in 1..Len(calls) :
    LET reqs == Returned(i).security_requirements
    IN  /\ BaselineTexts \subseteq {reqs[j].text : j \in 1..Len(reqs)}
        /\ Len(reqs) >= Len(BASELINE_REQUIREMENTS)
        /\ Len(BASELINE_REQUIREMENTS) = 8
        /\ \A j, k \in 1..Len(reqs) : j # k => reqs[j].text # reqs[k].text

\* a call with a null acceptance_criteria and empty title and description,
\* and a call that detected a pattern
C1_Witness ==
  /\ \E i \in 1..Len(calls) :
       /\ calls[i].acceptance_criteria = NULL
       /\ calls[i].title = <<>> /\ calls[i].description = <<>>
  /\ \E i \in 1..Len(calls) :
       Len(Returned(i).security_requirements) > Len(BASELINE_REQUIREMENTS)

\* C4: analyze_with_templates is pure: the tables PATTERNS and
\* BASELINE_REQUIREMENTS are never changed by a call, and a result returned
\* by an earlier call reads the same after any later call.
C4_PureFunction ==
  /\ \A k \in AcKeys : acId[k] = ABSENT
  /\ \A k \in ReqKeys : reqId[k] = ABSENT
  /\ \A i \in 1..Len(calls) : ResultView(calls[i].result, acId, reqId) = Returned(i)

\* C4, second half alone: an earlier result keeps the ids it was returned with
C4_EarlierResultUnchanged ==
  \A i \in 1..Len(calls) : ResultView(calls[i].result, acId, reqId) = Returned(i)

\* the patterns one of whose keywords occurs in the lower-cased search text
DetectedSet(i) ==
  {p \in 1..Len(PATTERNS) :
     \E j \in 1..Len(PATTERNS[p].keywords) :
       Contains(PATTERNS[p].keywords[j],
                SearchText(calls[i].title, calls[i].description,
                           calls[i].acceptance_criteria))}

CountImpact(i, impact) ==
  Cardinality({j \in 1..Len(Returned(i).abuse_cases) :
                 Returned(i).abuse_cases[j].impact = impact})

\* C5: risk_score = min(100, 12*C + 6*H + 8*D), and it lies in 0..100.
C5_RiskScoreFormula ==
  \A i \in 1..Len(calls) :
    LET raw == 12 * CountImpact(i, "Critical") + 6 * CountImpact(i, "High")
               + 8 * Cardinality(DetectedSet(i))
    IN  /\ Returned(i).risk_score = (IF raw > 100 THEN 100 ELSE raw)
        /\ Returned(i).risk_score \in 0..100

\* a call whose score saturated, and one with a score strictly between, that
\* has a Medium-impact abuse case
C5_Witness ==
  /\ \E i \in 1..Len(calls) :
       /\ Returned(i).risk_score = 100
       /\ 12 * CountImpact(i, "Critical") + 6 * CountImpact(i, "High")
          + 8 * Cardinality(DetectedSet(i)) > 100
  /\ \E i \in 1..Len(calls) :
       /\ Returned(i).risk_score \in 1..99
       /\ CountImpact(i, "Medium") > 0

\* prefix, "-", and the three decimal digits of n (n < 1000)
ThreeDigitId(prefix, n) ==
  prefix \o <<"-", DigitChar[((n \div 100) % 10) + 1],
              DigitChar[((n \div 10) % 10) + 1], DigitChar[(n % 10) + 1]>>

\* C6: in every result the i-th abuse case has id AC-00i and the i-th
\* requirement id SR-00i (1-based, 3 digits), without gap or repetition.
C6_ContiguousIds ==
  \A i \in 1..Len(calls) :
    /\ \A j \in 1..Len(Returned(i).abuse_cases) :
         Returned(i).abuse_cases[j].id = ThreeDigitId(<<"A","C">>, j)
    /\ \A j \in 1..Len(Returned(i).security_requirements) :
         Returned(i).security_requirements[j].id = ThreeDigitId(<<"S","R">>, j)

\* a result with two-digit ids, returned by a call that was not the first
C6_Witness ==
  \E i \in 2..Len(calls) :
    /\ Len(Returned(i).abuse_cases) >= 10
    /\ Len(Returned(i).security_requirements) >= 10
    /\ Len(Returned(1).abuse_cases) > 0

NoKeywordOccurs(i) == DetectedSet(i) = {}

\* C7: when no keyword occurs in the search text the result is: no abuse
\* cases, no STRIDE threats, the baseline requirements in their order with
\* ids SR-001..SR-008, risk_score 0.
C7_NoMatchGivesBaseline ==
  \A i \in 1..Len(calls) :
    NoKeywordOccurs(i) =>
      /\ Returned(i).abuse_cases = <<>>
      /\ Returned(i).stride_threats = <<>>
      /\ Returned(i).security_requirements =
           [j \in 1..Len(BASELINE_REQUIREMENTS) |->
              [id |-> ThreeDigitId(<<"S","R">>, j),
               text |-> BASELINE_REQUIREMENTS[j].text,
               priority |-> BASELINE_REQUIREMENTS[j].priority,
               category |-> BASELINE_REQUIREMENTS[j].category]]
      /\ Returned(i).risk_score = 0

\* a no-match call with empty title and description and null acceptance
\* criteria, made after a call that matched, and a no-match call with text
C7_Witness ==
  /\ Len(calls) = 2
  /\ ~NoKeywordOccurs(1)
  /\ NoKeywordOccurs(2)
  /\ calls[2].title = <<>> /\ calls[2].description = <<>>
  /\ calls[2].acceptance_criteria = NULL

StrideCategoriesOf(i) ==
  {Returned(i).abuse_cases[j].stride_category : j \in 1..Len(Returned(i).abuse_cases)}

\* C8: stride_threats has pairwise distinct categories, each the category of
\* a returned abuse case, and no more entries than distinct categories.
C8_StridePerCategory ==
  \A i \in 1..Len(calls) :
    LET st == Returned(i).stride_threats
    IN  /\ \A j, k \in 1..Len(st) : j # k => st[j].category # st[k].category
        /\ \A j \in 1..Len(st) : st[j].category \in StrideCategoriesOf(i)
        /\ Len(st) <= Cardinality(StrideCategoriesOf(i))

\* a result with several abuse cases per category
C8_Witness ==
  \E i \in 1..Len(calls) :
    /\ Len(Returned(i).stride_threats) >= 2
    /\ Len(Returned(i).stride_threats) < Len(Returned(i).abuse_cases)

\* the threat names of the abuse cases the i-th call returned
ThreatsOf(i) ==
  {Returned(i).abuse_cases[j].threat : j \in 1..Len(Returned(i).abuse_cases)}

\* the requirement texts the i-th call returned
TextsOf(i) ==
  {Returned(i).security_requirements[j].text :
     j \in 1..Len(Returned(i).security_requirements)}

\* the abuse case `ac` of the tables is among those the i-th call returned
ReturnsAbuseCase(i, ac) ==
  \E j \in 1..Len(Returned(i).abuse_cases) :
    LET got == Returned(i).abuse_cases[j]
    IN  /\ got.threat = ac.threat /\ got.actor = ac.actor
        /\ got.impact = ac.impact /\ got.likelihood = ac.likelihood
        /\ got.stride_category = ac.stride_category

PasswordReset == <<"p","a","s","s","w","o","r","d"," ","r","e","s","e","t">>
CreditCard == <<"c","r","e","d","i","t"," ","c","a","r","d">>

\* C22: a pattern is detected iff one of its keywords is a substring of the
\* lower-cased search text: every abuse case and every requirement text of a
\* pattern with such a keyword is in the result, no abuse case of a pattern
\* without one is, and a text containing 'password reset' and 'credit card'
\* yields 'Credential Stuffing Attack' and 'Credit Card Skimming (Magecart)'.
C22_DetectionByKeyword ==
  \A i \in 1..Len(calls) :
    /\ \A p \in 1..Len(PATTERNS) :
         IF p \in DetectedSet(i)
         THEN /\ \A j \in 1..Len(PATTERNS[p].abuse_cases) :
                   ReturnsAbuseCase(i, PATTERNS[p].abuse_cases[j])
              /\ \A j \in 1..Len(PATTERNS[p].requirements) :
                   PATTERNS[p].requirements[j].text \in TextsOf(i)
         ELSE \A j \in 1..Len(PATTERNS[p].abuse_cases) :
                PATTERNS[p].abuse_cases[j].threat \notin ThreatsOf(i)
    /\ LET text == SearchText(calls[i].title, calls[i].description,
                              calls[i].acceptance_criteria)
       IN  (Contains(PasswordReset, text) /\ Contains(CreditCard, text)) =>
             /\ "Credential Stuffing Attack" \in ThreatsOf(i)
             /\ "Credit Card Skimming (Magecart)" \in ThreatsOf(i)

\* a call whose text holds 'password reset' and 'credit card' in mixed case
\* and no keyword of the other patterns
C22_Witness ==
  \E i \in 1..Len(calls) :
    LET text == SearchText(calls[i].title, calls[i].description,
                           calls[i].acceptance_criteria)
    IN  /\ Contains(PasswordReset, text) /\ Contains(CreditCard, text)
        /\ ~Contains(PasswordReset, calls[i].title)
        /\ Cardinality(DetectedSet(i)) = 2
        /\ Len(Returned(i).abuse_cases) = 8

\* the requirements of the patterns with a keyword in the text of the i-th
\* call, in library pattern order, followed by the baseline requirements
CandidateRequirements(i) ==
  Concat([p \in 1..Len(PATTERNS) |->
            IF p \in DetectedSet(i) THEN PATTERNS[p].requirements ELSE <<>>])
  \o BASELINE_REQUIREMENTS

\* `reqs` without every entry whose text occurred at an earlier position
FirstOccurrences(reqs) ==
  LET kept == SelectSeq([j \in 1..Len(reqs) |-> j],
                        LAMBDA j : \A k \in 1..(j - 1) : reqs[k].text # reqs[j].text)
  IN  [n \in 1..Len(kept) |-> reqs[kept[n]]]

Reverse(seq) == [j \in 1..Len(seq) |-> seq[Len(seq) + 1 - j]]

\* C23: the returned requirement sequence is the concatenation of the
\* detected patterns' requirements in library pattern order followed by the
\* baseline requirements, without the entries whose text occurred earlier:
\* the first occurrence of a text is kept and the order is preserved.  No
\* two requirements of the tables share a text, so the second conjunct runs
\* the deduplication on the returned list followed by its reverse.
C23_StableDedupOrder ==
  \A i \in 1..Len(calls) :
    /\ [j \in 1..Len(Returned(i).security_requirements) |->
          [text |-> Returned(i).security_requirements[j].text,
           priority |-> Returned(i).security_requirements[j].priority,
           category |-> Returned(i).security_requirements[j].category]]
         = FirstOccurrences(CandidateRequirements(i))
    /\ DedupByText(calls[i].result.security_requirements
                   \o Reverse(calls[i].result.security_requirements))
         = calls[i].result.security_requirements

\* a call that detected every pattern: its requirements start with those of
\* the first pattern and end with the baseline
C23_Witness ==
  \E i \in 1..Len(calls) :
    LET reqs == Returned(i).security_requirements
    IN  /\ DetectedSet(i) = 1..Len(PATTERNS)
        /\ Len(reqs) = Len(CandidateRequirements(i))
        /\ reqs[1].text = PATTERNS[1].requirements[1].text
        /\ reqs[Len(reqs)].text = BASELINE_REQUIREMENTS[Len(BASELINE_REQUIREMENTS)].text

\* the positions of the abuse cases of `category` in the i-th result
CasesOfCategory(i, category) ==
  {k \in 1..Len(Returned(i).abuse_cases) :
     Returned(i).abuse_cases[k].stride_category = category}

\* the position of the first abuse case of `category` in the i-th result
FirstOfCategory(i, category) ==
  CHOOSE k \in CasesOfCategory(i, category) :
    \A m \in CasesOfCategory(i, category) : k <= m

\* the number a StrideThreat description states
StatedCount(description) ==
  CHOOSE n \in 0..99 : description = Decimal(n) \o ThreatsIdentified

RECURSIVE SumStatedCounts(_)
SumStatedCounts(stride_threats) ==
  IF stride_threats = <<>> THEN 0
  ELSE StatedCount(Head(stride_threats).description)
       + SumStatedCounts(Tail(stride_threats))

\* C24: each StrideThreat carries the threat name and the impact of the first
\* abuse case of its category, its description states the number of abuse
\* cases of the category (the stated counts sum to the number of abuse
\* cases), and the threats are ordered by the first occurrence of their
\* category among the abuse cases.
C24_StrideFromFirstCase ==
  \A i \in 1..Len(calls) :
    LET st == Returned(i).stride_threats
        acs == Returned(i).abuse_cases
    IN  /\ \A j \in 1..Len(st) :
             /\ CasesOfCategory(i, st[j].category) # {}
             /\ st[j].threat = acs[FirstOfCategory(i, st[j].category)].threat
             /\ st[j].risk_level = acs[FirstOfCategory(i, st[j].category)].impact
             /\ st[j].description =
                  Decimal(Cardinality(CasesOfCategory(i, st[j].category)))
                  \o ThreatsIdentified
        /\ SumStatedCounts(st) = Len(acs)
        /\ \A j, k \in 1..Len(st) :
             j < k => FirstOfCategory(i, st[j].category)
                        < FirstOfCategory(i, st[k].category)

\* a result with four categories, one of them with seven abuse cases that
\* are interleaved with those of other categories
C24_Witness ==
  \E i \in 1..Len(calls) :
    LET st == Returned(i).stride_threats
        acs == Returned(i).abuse_cases
    IN  /\ Len(st) = 4
        /\ \E j \in 1..Len(st) :
             \E a, b, c \in 1..Len(acs) :
               /\ StatedCount(st[j].description) = 7
               /\ a < b /\ b < c
               /\ acs[a].stride_category = st[j].category
               /\ acs[b].stride_category # st[j].category
               /\ acs[c].stride_category = st[j].category
               /\ acs[a].threat # acs[c].threat

\* ------------------------------------------------------------------------
\* Properties of the mapper
\* ------------------------------------------------------------------------
\* C9: map_requirements_to_standards returns a list and never raises, for
\* every requirement list, standards list and custom standards (including
\* controls whose category is null or absent).
C9_MapperNeverRaises ==
  \A i \in 1..Len(mapCalls) : ~mapCalls[i].outcome.raised

\* the standards a call iterates over
RequestedStandards(i) ==
  IF mapCalls[i].standards.is_none
  THEN [j \in 1..Len(STANDARD_CATEGORY_MAP) |-> STANDARD_CATEGORY_MAP[j].name]
  ELSE mapCalls[i].standards.items

\* the mappings the i-th call emitted for requirement id `rid` and built-in
\* standard `std` (custom-standard mappings carry relevance 0.7)
EmittedFor(i, rid, std) ==
  LET out == mapCalls[i].outcome.mappings
  IN  {j \in 1..Len(out) : /\ out[j].requirement_id = rid
                           /\ out[j].standard_name = std
                           /\ out[j].relevance_score # Score07}

\* the controls of the catalog of `std` whose id starts with `prefix`
CatalogHits(std, prefix) ==
  IF Lower(std) \in DOMAIN dataFiles
  THEN {c \in 1..Len(dataFiles[Lower(std)]) :
          /\ dataFiles[Lower(std)][c].id # ABSENT
          /\ StartsWith(dataFiles[Lower(std)][c].id, prefix)}
  ELSE {}

\* the prefixes STANDARD_CATEGORY_MAP lists for `category` under `std`
PrefixesOf(std, category) ==
  LET entries == {e \in UNION {Range(STANDARD_CATEGORY_MAP[s].categories) :
                                 s \in {s \in 1..Len(STANDARD_CATEGORY_MAP) :
                                          STANDARD_CATEGORY_MAP[s].name = std}} :
                    e.category = category}
  IN  IF entries = {} THEN <<>> ELSE (CHOOSE e \in entries : TRUE).prefixes

RECURSIVE ExpectedCount(_, _)
\* sum over the prefixes of min(2, m) for m >= 1 hits, 1 for m = 0
ExpectedCount(std, prefixes) ==
  IF prefixes = <<>> THEN 0
  ELSE LET m == Cardinality(CatalogHits(std, Head(prefixes)))
       IN  (IF m = 0 THEN 1 ELSE IF m >= 2 THEN 2 ELSE m)
           + ExpectedCount(std, Tail(prefixes))

\* C10: for each (requirement, requested standard) pair of a call that
\* returned, the number of mappings emitted is 0 when the category is not in
\* the standard's category map, and otherwise the sum over the category's
\* prefixes of min(2, m) for m >= 1 catalog hits and 1 for m = 0; for
\* 'Authentication & Access Control' against OWASP_ASVS with the catalog
\* {V2-1, V2-2, V3-1} the mappings are V2-1, V2-2, V3-1 and a synthetic V4.
C10_MappingCount ==
  \A i \in 1..Len(mapCalls) :
    ~mapCalls[i].outcome.raised =>
      /\ \A a \in 1..Len(mapCalls[i].security_requirements),
            b \in 1..Len(RequestedStandards(i)) :
           LET req == mapCalls[i].security_requirements[a]
               rid == IF req.id = ABSENT THEN <<>> ELSE req.id
               cat == IF req.category = ABSENT THEN <<>> ELSE req.category
               std == RequestedStandards(i)[b]
           IN  Cardinality(EmittedFor(i, rid, std))
                 = ExpectedCount(std, PrefixesOf(std, cat))
      /\ ( /\ dataFiles = CatalogScenarioC
           /\ mapCalls[i].security_requirements = <<ReqAuth>>
           /\ mapCalls[i].standards = List(<<OWASP_ASVS>>)
           /\ mapCalls[i].custom_standards.is_none )
         => LET out == mapCalls[i].outcome.mappings
            IN  /\ [j \in 1..Len(out) |-> out[j].control_id]
                     = << <<"V","2","-","1">>, <<"V","2","-","2">>,
                          <<"V","3","-","1">>, <<"V","4">> >>
                /\ [j \in 1..Len(out) |-> out[j].relevance_score]
                     = <<Score08, Score08, Score08, Score06>>

\* the call of the scenario has returned, against a standard whose map lacks
\* the category of one requirement
C10_Witness ==
  \E i \in 1..Len(mapCalls) :
    /\ dataFiles = CatalogScenarioC
    /\ ~mapCalls[i].outcome.raised
    /\ mapCalls[i].security_requirements = <<ReqArchitecture, ReqAuth>>
    /\ mapCalls[i].standards = List(<<GDPR, OWASP_ASVS>>)
    /\ Cardinality(EmittedFor(i, ReqAuth.id, OWASP_ASVS)) = 4
    /\ Cardinality(EmittedFor(i, ReqArchitecture.id, GDPR)) = 0

\* the built-in mappings the i-th call emitted for `rid` and `std`, in order
EmittedSeq(i, rid, std) ==
  SelectSeq(mapCalls[i].outcome.mappings,
            LAMBDA m : /\ m.requirement_id = rid
                       /\ m.standard_name = std
                       /\ m.relevance_score # Score07)

\* the controls of the catalog of `std` whose id starts with `prefix`, in
\* catalog order
HitSeq(std, prefix) ==
  IF Lower(std) \in DOMAIN dataFiles
  THEN SelectSeq(dataFiles[Lower(std)],
                 LAMBDA c : c.id # ABSENT /\ StartsWith(c.id, prefix))
  ELSE <<>>

\* the part of EmittedSeq(i, rid, std) that belongs to the k-th prefix
Segment(i, rid, std, prefixes, k) ==
  LET emitted == EmittedSeq(i, rid, std)
      off == ExpectedCount(std, SubSeq(prefixes, 1, k - 1))
      n == ExpectedCount(std, <<prefixes[k]>>)
  IN  IF off + n > Len(emitted) THEN <<>> ELSE SubSeq(emitted, off + 1, off + n)

\* a control of the custom standards has a null category, or a requirement
\* has one while the custom standards hold a control
NullCategoryInput(i) ==
  /\ ~mapCalls[i].custom_standards.is_none
  /\ \E s \in 1..Len(mapCalls[i].custom_standards.items) :
       \E c \in 1..Len(mapCalls[i].custom_standards.items[s].controls) :
         \E a \in 1..Len(mapCalls[i].security_requirements) :
           \/ mapCalls[i].custom_standards.items[s].controls[c].category = NULL
           \/ mapCalls[i].security_requirements[a].category = NULL

\* C11: whenever at least one catalog control of the standard has an id
\* starting with a matched prefix, the mappings emitted for that prefix are
\* exactly the first two such controls in catalog order (or the single one),
\* each with relevance_score 0.8 and with control_id and control_title of
\* the catalog entry, and no synthetic mapping is emitted for that prefix.
C11_FirstTwoCatalogControls ==
  \A i \in 1..Len(mapCalls) :
    ~mapCalls[i].outcome.raised =>
      \A a \in 1..Len(mapCalls[i].security_requirements),
         b \in 1..Len(RequestedStandards(i)) :
        LET req == mapCalls[i].security_requirements[a]
            rid == IF req.id = ABSENT THEN <<>> ELSE req.id
            cat == IF req.category = ABSENT THEN <<>> ELSE req.category
            std == RequestedStandards(i)[b]
            prefixes == PrefixesOf(std, cat)
        IN  \A k \in 1..Len(prefixes) :
              LET hits == HitSeq(std, prefixes[k])
              IN  hits # <<>> =>
                    Segment(i, rid, std, prefixes, k) =
                      [j \in 1..(IF Len(hits) >= 2 THEN 2 ELSE 1) |->
                         [requirement_id |-> rid,
                          standard_name |-> std,
                          control_id |-> hits[j].id,
                          control_title |->
                            IF hits[j].title = ABSENT THEN <<>> ELSE hits[j].title,
                          relevance_score |-> Score08]]

\* a returned call against a catalog with three controls under V2 (the third
\* is not mapped) and four under V1
C11_Witness ==
  \E i \in 1..Len(mapCalls) :
    /\ dataFiles = CatalogOverlap
    /\ ~mapCalls[i].outcome.raised
    /\ mapCalls[i].security_requirements = <<ReqArchitecture, ReqAuth>>
    /\ mapCalls[i].standards = List(<<GDPR, OWASP_ASVS>>)
    /\ Len(HitSeq(OWASP_ASVS, <<"V","2">>)) = 3
    /\ Len(HitSeq(OWASP_ASVS, <<"V","1">>)) = 4
    /\ [j \in 1..2 |-> EmittedSeq(i, ReqAuth.id, OWASP_ASVS)[j].control_id]
         = << <<"V","2",".","1">>, <<"V","2",".","2">> >>

\* C12: when no catalog control id starts with a matched prefix (the catalog
\* is missing or the prefix is absent from it), the mapper emits exactly one
\* mapping for that prefix, with control_id the prefix itself, control_title
\* '<standard> control <prefix>' and relevance_score 0.6; a missing catalog
\* is never an error: without a null category in its input a call returns.
C12_SyntheticMapping ==
  \A i \in 1..Len(mapCalls) :
    /\ ~NullCategoryInput(i) => ~mapCalls[i].outcome.raised
    /\ ~mapCalls[i].outcome.raised =>
         \A a \in 1..Len(mapCalls[i].security_requirements),
            b \in 1..Len(RequestedStandards(i)) :
           LET req == mapCalls[i].security_requirements[a]
               rid == IF req.id = ABSENT THEN <<>> ELSE req.id
               cat == IF req.category = ABSENT THEN <<>> ELSE req.category
               std == RequestedStandards(i)[b]
               prefixes == PrefixesOf(std, cat)
           IN  \A k \in 1..Len(prefixes) :
                 HitSeq(std, prefixes[k]) = <<>> =>
                   Segment(i, rid, std, prefixes, k) =
                     << [requirement_id |-> rid,
                         standard_name |-> std,
                         control_id |-> prefixes[k],
                         control_title |->
                           std \o <<" ","c","o","n","t","r","o","l"," ">> \o prefixes[k],
                         relevance_score |-> Score06] >>

\* a returned call without any catalog file that emitted the synthetic
\* mappings V2, V3, V4 of OWASP_ASVS
C12_Witness ==
  \E i \in 1..Len(mapCalls) :
    /\ dataFiles = NoDataFiles
    /\ ~mapCalls[i].outcome.raised
    /\ mapCalls[i].security_requirements = <<ReqAuth>>
    /\ mapCalls[i].standards = List(<<OWASP_ASVS>>)
    /\ [j \in 1..3 |-> EmittedSeq(i, ReqAuth.id, OWASP_ASVS)[j].control_id]
         = << <<"V","2">>, <<"V","3">>, <<"V","4">> >>
    /\ EmittedSeq(i, ReqAuth.id, OWASP_ASVS)[1].control_title
         = <<"O","W","A","S","P","_","A","S","V","S"," ","c","o","n","t","r","o","l"," ","V","2">>

\* the names STANDARD_CATEGORY_MAP knows
BuiltInNames == {STANDARD_CATEGORY_MAP[s].name : s \in 1..Len(STANDARD_CATEGORY_MAP)}

\* C13: for a requested standard name that is not one of the built-in
\* standards the call does not raise on account of it (a call raises only on
\* a null category), and its list holds no mapping for that name: every
\* category is unmapped for a standard without category map.
C13_UnknownStandard ==
  \A i \in 1..Len(mapCalls) :
    \A b \in 1..Len(RequestedStandards(i)) :
      RequestedStandards(i)[b] \notin BuiltInNames =>
        /\ mapCalls[i].outcome.raised => NullCategoryInput(i)
        /\ \A j \in 1..Len(mapCalls[i].outcome.mappings) :
             mapCalls[i].outcome.mappings[j].standard_name # RequestedStandards(i)[b]

\* a returned call for "UNKNOWN" and "owasp_asvs" (whose catalog file
\* exists) with a requirement of a mapped category
C13_Witness ==
  \E i \in 1..Len(mapCalls) :
    /\ dataFiles = CatalogScenarioC
    /\ mapCalls[i].standards = List(<<UNKNOWN, owasp_asvs>>)
    /\ mapCalls[i].security_requirements = <<ReqAuth>>
    /\ ~mapCalls[i].custom_standards.is_none
    /\ ~mapCalls[i].outcome.raised
    /\ Len(mapCalls[i].outcome.mappings) = 1
    /\ mapCalls[i].outcome.mappings[1].relevance_score = Score07

\* the number of mappings of relevance 0.7 the i-th call emitted for the
\* requirement `rid`, the standard `name` and the control `cid`
CustomMappingCount(i, rid, name, cid) ==
  Cardinality({j \in 1..Len(mapCalls[i].outcome.mappings) :
                 /\ mapCalls[i].outcome.mappings[j].requirement_id = rid
                 /\ mapCalls[i].outcome.mappings[j].standard_name = name
                 /\ mapCalls[i].outcome.mappings[j].control_id = cid
                 /\ mapCalls[i].outcome.mappings[j].relevance_score = Score07})

\* one category is a substring of the other, compared case-insensitively
CategoriesOverlap(ctrl_category, req_category) ==
  \/ Contains(Lower(ctrl_category), Lower(req_category))
  \/ Contains(Lower(req_category), Lower(ctrl_category))

\* C14 as stated: for every requirement and every control of every supplied
\* custom standard, a mapping with relevance_score 0.7 and the custom
\* standard's name ('Custom' without name) is emitted if and only if one
\* category is a case-insensitive substring of the other.
C14_SubstringIff ==
  \A i \in 1..Len(mapCalls) :
    (~mapCalls[i].outcome.raised /\ ~mapCalls[i].custom_standards.is_none) =>
      \A a \in 1..Len(mapCalls[i].security_requirements),
         s \in 1..Len(mapCalls[i].custom_standards.items) :
        \A c \in 1..Len(mapCalls[i].custom_standards.items[s].controls) :
          LET req == mapCalls[i].security_requirements[a]
              cs == mapCalls[i].custom_standards.items[s]
              control == cs.controls[c]
              rid == IF req.id = ABSENT THEN <<>> ELSE req.id
              cat == IF req.category = ABSENT THEN <<>> ELSE req.category
              name == IF cs.name = ABSENT THEN CustomName ELSE cs.name
              ccat == IF control.category = ABSENT THEN <<>> ELSE control.category
          IN  (CustomMappingCount(i, rid, name, control.control_id) >= 1)
                <=> CategoriesOverlap(ccat, cat)

\* C14, amended: the mapping is emitted (once) if and only if the control's
\* category is a non-empty string and one category is a case-insensitive
\* substring of the other; without custom standards no mapping of relevance
\* 0.7 is emitted; whichever built-in standards were requested.
C14_NonEmptySubstringIff ==
  \A i \in 1..Len(mapCalls) :
    ~mapCalls[i].outcome.raised =>
      IF mapCalls[i].custom_standards.is_none
      THEN \A j \in 1..Len(mapCalls[i].outcome.mappings) :
             mapCalls[i].outcome.mappings[j].relevance_score # Score07
      ELSE
        \A a \in 1..Len(mapCalls[i].security_requirements),
           s \in 1..Len(mapCalls[i].custom_standards.items) :
          \A c \in 1..Len(mapCalls[i].custom_standards.items[s].controls) :
            LET req == mapCalls[i].security_requirements[a]
                cs == mapCalls[i].custom_standards.items[s]
                control == cs.controls[c]
                rid == IF req.id = ABSENT THEN <<>> ELSE req.id
                cat == IF req.category = ABSENT THEN <<>> ELSE req.category
                name == IF cs.name = ABSENT THEN CustomName ELSE cs.name
                ccat == IF control.category = ABSENT THEN <<>> ELSE control.category
            IN  CustomMappingCount(i, rid, name, control.control_id) =
                  (IF ccat # <<>> /\ CategoriesOverlap(ccat, cat) THEN 1 ELSE 0)

\* a returned call whose custom standard has no name and holds a control
\* that matches by "requirement category in control category", a control
\* without category and one with the empty category
C14_Witness ==
  \E i \in 1..Len(mapCalls) :
       /\ ~mapCalls[i].outcome.raised
       /\ mapCalls[i].security_requirements = <<ReqAudit, ReqFinancial>>
       /\ mapCalls[i].custom_standards =
            List(<<[name |-> ABSENT,
                    controls |-> <<CtrlAuditMonitoring, CtrlNoCategory,
                                   CtrlEmptyCategory>>]>>)
       /\ CustomMappingCount(i, ReqAudit.id, CustomName, CtrlAuditMonitoring.control_id) = 1
       /\ CustomMappingCount(i, ReqAudit.id, CustomName, CtrlEmptyCategory.control_id) = 0
       /\ CustomMappingCount(i, ReqFinancial.id, CustomName, CtrlAuditMonitoring.control_id) = 0

\* the number of built-in mappings the i-th call emitted for the requirement
\* `rid`, the standard `std` and the control `cid`
TripleCount(i, rid, std, cid) ==
  Cardinality({j \in EmittedFor(i, rid, std) :
                 mapCalls[i].outcome.mappings[j].control_id = cid})

\* the ids of the controls in the catalog of `std`
CatalogIds(std) ==
  IF Lower(std) \in DOMAIN dataFiles
  THEN {dataFiles[Lower(std)][c].id : c \in 1..Len(dataFiles[Lower(std)])} \ {ABSENT}
  ELSE {}

\* the positions of `prefixes` whose prefix the id `cid` starts with
PrefixesMatching(prefixes, cid) ==
  {k \in 1..Len(prefixes) : StartsWith(cid, prefixes[k])}

\* the positions of `prefixes` for whose prefix `cid` is the id of one of the
\* first two catalog controls that match it
PrefixesMapping(std, prefixes, cid) ==
  {k \in 1..Len(prefixes) :
     \E j \in 1..Len(HitSeq(std, prefixes[k])) :
       j <= 2 /\ HitSeq(std, prefixes[k])[j].id = cid}

\* C25 as stated: when a catalog control id starts with two prefixes listed
\* for the requirement's category, the same (requirement_id, standard_name,
\* control_id) triple is emitted once for each of those prefixes.
C25_OncePerMatchingPrefix ==
  \A i \in 1..Len(mapCalls) :
    ~mapCalls[i].outcome.raised =>
      \A a \in 1..Len(mapCalls[i].security_requirements),
         b \in 1..Len(RequestedStandards(i)) :
        LET req == mapCalls[i].security_requirements[a]
            rid == IF req.id = ABSENT THEN <<>> ELSE req.id
            cat == IF req.category = ABSENT THEN <<>> ELSE req.category
            std == RequestedStandards(i)[b]
            prefixes == PrefixesOf(std, cat)
        IN  \A cid \in CatalogIds(std) :
              Cardinality(PrefixesMatching(prefixes, cid)) >= 2 =>
                TripleCount(i, rid, std, cid)
                  = Cardinality(PrefixesMatching(prefixes, cid))

\* C25: the mapper never suppresses a duplicate: a catalog control is emitted
\* once for each prefix of the requirement's category for which it is among
\* the first two catalog controls matching that prefix, also when the same
\* (requirement_id, standard_name, control_id) triple was emitted before.
C25_OncePerMappingPrefix ==
  \A i \in 1..Len(mapCalls) :
    ~mapCalls[i].outcome.raised =>
      \A a \in 1..Len(mapCalls[i].security_requirements),
         b \in 1..Len(RequestedStandards(i)) :
        LET req == mapCalls[i].security_requirements[a]
            rid == IF req.id = ABSENT THEN <<>> ELSE req.id
            cat == IF req.category = ABSENT THEN <<>> ELSE req.category
            std == RequestedStandards(i)[b]
            prefixes == PrefixesOf(std, cat)
        IN  \A cid \in CatalogIds(std) :
              TripleCount(i, rid, std, cid)
                = Cardinality(PrefixesMapping(std, prefixes, cid))

\* 'Secure Architecture' against OWASP_ASVS (prefixes V1, V10, V14) with a
\* catalog where V10.1 is the first control under V1 and under V10 and is
\* emitted twice, while V14.1 is the third under V1 and is emitted once
C25_Witness ==
  \E i \in 1..Len(mapCalls) :
    /\ dataFiles = CatalogOverlap
    /\ ~mapCalls[i].outcome.raised
    /\ ReqArchitecture \in Range(mapCalls[i].security_requirements)
    /\ TripleCount(i, ReqArchitecture.id, OWASP_ASVS, <<"V","1","0",".","1">>) = 2
    /\ TripleCount(i, ReqArchitecture.id, OWASP_ASVS, <<"V","1","4",".","1">>) = 1

\* the built-in mappings expected for one prefix: the first two catalog
\* controls under it in catalog order, or the synthetic mapping
ExpectedForPrefix(rid, std, prefix) ==
  LET hits == HitSeq(std, prefix)
  IN  IF hits = <<>>
      THEN << [requirement_id |-> rid, standard_name |-> std, control_id |-> prefix,
               control_title |-> std \o <<" ","c","o","n","t","r","o","l"," ">> \o prefix,
               relevance_score |-> Score06] >>
      ELSE [j \in 1..(IF Len(hits) >= 2 THEN 2 ELSE 1) |->
              [requirement_id |-> rid, standard_name |-> std, control_id |-> hits[j].id,
               control_title |-> IF hits[j].title = ABSENT THEN <<>> ELSE hits[j].title,
               relevance_score |-> Score08]]

\* the custom-standard mappings expected for one requirement: standards in
\* the order supplied, controls in the order of the standard
ExpectedCustom(i, rid, cat) ==
  IF mapCalls[i].custom_standards.is_none THEN <<>>
  ELSE LET items == mapCalls[i].custom_standards.items
       IN  Concat([s \in 1..Len(items) |->
             LET hits == SelectSeq(items[s].controls,
                           LAMBDA c : /\ c.category # ABSENT /\ c.category # <<>>
                                      /\ CategoriesOverlap(c.category, cat))
             IN  [j \in 1..Len(hits) |->
                    [requirement_id |-> rid,
                     standard_name |-> IF items[s].name = ABSENT THEN CustomName
                                       ELSE items[s].name,
                     control_id |-> IF hits[j].control_id = ABSENT THEN <<>>
                                    ELSE hits[j].control_id,
                     control_title |-> IF hits[j].title = ABSENT THEN <<>>
                                       ELSE hits[j].title,
                     relevance_score |-> Score07]]])

\* the mappings in the order: requirement, then standard, then prefix, then
\* catalog control, the custom mappings of a requirement after its built-in
\* ones
ExpectedOrder(i) ==
  Concat([a \in 1..Len(mapCalls[i].security_requirements) |->
    LET req == mapCalls[i].security_requirements[a]
        rid == IF req.id = ABSENT THEN <<>> ELSE req.id
        cat == IF req.category = ABSENT THEN <<>> ELSE req.category
    IN  Concat([b \in 1..Len(RequestedStandards(i)) |->
          LET std == RequestedStandards(i)[b]
              prefixes == PrefixesOf(std, cat)
          IN  Concat([k \in 1..Len(prefixes) |->
                        ExpectedForPrefix(rid, std, prefixes[k])])])
        \o ExpectedCustom(i, rid, cat)])

\* C26: the output order is deterministic: the mappings are ordered by
\* requirement (input order), then standard (requested order), then prefix
\* (category-map order), then control (catalog order), with the custom
\* mappings of a requirement after its built-in ones and before the next
\* requirement's; a second call with the same inputs and catalogs returns
\* the same sequence.
C26_DeterministicOrder ==
  \A i \in 1..Len(mapCalls) :
    /\ ~mapCalls[i].outcome.raised =>
         mapCalls[i].outcome.mappings = ExpectedOrder(i)
    /\ mapCalls[i].again.raised = mapCalls[i].outcome.raised
    /\ mapCalls[i].again.mappings = mapCalls[i].outcome.mappings

\* a call with two requirements, two standards and a custom mapping for the
\* first requirement, which lies after the built-in mappings of the first
\* and before those of the second, has been made twice
C26_Witness ==
  \E i \in 1..Len(mapCalls) :
    LET out == mapCalls[i].outcome.mappings
    IN  /\ dataFiles = CatalogOverlap
        /\ mapCalls[i].again.mappings = out
        /\ ~mapCalls[i].outcome.raised
        /\ mapCalls[i].security_requirements = <<ReqAudit, ReqFinancial>>
        /\ mapCalls[i].standards = List(<<GDPR, OWASP_ASVS>>)
        /\ \E h, j, k \in 1..Len(out) :
             /\ h < j /\ j < k
             /\ out[h].relevance_score # Score07
             /\ out[h].requirement_id = ReqAudit.id
             /\ out[j].relevance_score = Score07
             /\ out[j].requirement_id = ReqAudit.id
             /\ out[k].relevance_score # Score07
             /\ out[k].requirement_id = ReqFinancial.id

\* ------------------------------------------------------------------------
\* Properties of the server
\* ------------------------------------------------------------------------
\* C2: no committed state holds two analyses with the same
\* (user_story_id, version), under any interleaving of concurrent runs.
C2_UniqueStoryVersion ==
  \A a, b \in security_analyses :
    (a.user_story_id = b.user_story_id /\ a.version = b.version) => a = b

\* two runs read the same max version of one story; one committed its
\* version and the other lost with IntegrityError
C2_Witness ==
  \E r, o \in Requests :
    /\ r # o
    /\ runs[r].pc = "committed" /\ runs[o].pc = "failed"
    /\ runs[o].error = "IntegrityError"
    /\ runs[r].story = runs[o].story
    /\ runs[r].max_version = runs[o].max_version
    /\ runs[r].analysis[1] \in security_analyses

\* the mapping rows committed for analysis `a`, in insertion order
MappingsOf(a) ==
  LET rows == {m \in compliance_mappings : m.analysis_id = a.id}
  IN  [j \in 1..Cardinality(rows) |->
         (CHOOSE m \in rows : m.position = j).mapping]

\* C3: with concurrently interleaved template-fallback runs, the compliance
\* mappings of each run are those of its own persisted security_requirements
\* (the requirement_id values identify the same requirements), exactly as if
\* the run had executed alone.
C3_MappingsMatchPersistedRequirements ==
  \A a \in security_analyses :
    a.ai_model_used = TemplateFallback =>
      MappingsOf(a) =
        map_requirements_to_standards(a.security_requirements, NoneList,
                                      custom_std_data).mappings

\* the persisted analyses of a story
AnalysesOf(story) == {a \in security_analyses : a.user_story_id = story}

\* C15: after any sequence of successful and failed analysis runs, the
\* versions of the persisted analyses of a story are exactly 1..n for its n
\* successful runs: a failed run does not consume a version number, and no
\* version number is reused.
C15_VersionsCountSuccessfulRuns ==
  \A s \in 1..Len(Stories) :
    {a.version : a \in AnalysesOf(Stories[s].id)}
      = 1..Cardinality({p \in succeeded : p.story = Stories[s].id})

C17_RowSurvivesMappingFailure ==
  \A r \in Requests :
    /\ (runs[r].pc = "failed" /\ runs[r].error = "AttributeError") =>
         runs[r].analysis[1] \in security_analyses
    /\ (runs[r].kind = "bulk" /\ runs[r].pc = "committed") =>
         \A j \in 1..Len(runs[r].flushed) :
           runs[r].flushed[j].analysis \in security_analyses

\* C18: in bulk analysis the failure of one story is recorded as the error
\* entry of that story and does not abort the others: the batch does not end
\* in failure, results holds one entry per processed story in story order,
\* and the response holds one entry per story, whose successes are persisted.
C18_BulkIsolatesFailures ==
  \A r \in Requests :
    runs[r].kind = "bulk" =>
      /\ runs[r].pc # "failed"
      /\ \A j \in 1..Len(runs[r].results) : runs[r].results[j].story_id = Stories[j].id
      /\ runs[r].pc = "committed" =>
           /\ Len(runs[r].results) = Len(Stories)
           /\ \A p \in ReportedSuccess(runs[r]) :
                \E a \in security_analyses : a.id = p.id

\* C19: when a batch is abandoned between two stories, the analyses of the
\* stories already processed are persisted.
C19_AbandonKeepsProcessed ==
  \A r \in Requests :
    runs[r].pc = "abandoned" =>
      \A p \in ReportedSuccess(runs[r]) :
        \E a \in security_analyses : a.id = p.id

\* C20: once a SecurityAnalysis is persisted no step changes any of its
\* fields: the row of an id reads the same after every step.
C20_WriteOnce ==
  [][\A a \in security_analyses :
       \A b \in security_analyses' : b.id = a.id => b = a]_vars

\* a batch has written a row from the template engine for each of the two
\* stories, the second after the first, and a later listing of the first
\* story has read its row
C20_Witness ==
  \E a, c \in security_analyses :
    /\ a.version = 1 /\ c.version = 1
    /\ a.ai_model_used = TemplateFallback
    /\ c.ai_model_used = TemplateFallback
    /\ c.user_story_id # a.user_story_id
    /\ c.id > a.id
    /\ \E r \in Requests :
         /\ runs[r].pc = "listed"
         /\ runs[r].results = <<a>>

\* the committed mapping rows of the analysis with id `id`
RowsOf(id, table) == {m \in table : m.analysis_id = id}

\* a single-story run that failed has left no row behind, and every mapping
\* row belongs to a committed analysis
NothingLeftBehind ==
  /\ \A r \in Requests :
       (runs[r].kind = "single" /\ runs[r].pc = "failed") =>
         /\ \A a \in security_analyses : a.id # runs[r].analysis[1].id
         /\ RowsOf(runs[r].analysis[1].id, compliance_mappings) = {}
  /\ \A m \in compliance_mappings : \E a \in security_analyses : a.id = m.analysis_id

\* a step that makes an analysis durable makes all mappings computed for it
\* durable with it, and no step adds mapping rows to a durable analysis
SnapshotWithMappings ==
  \A a \in security_analyses' :
    IF a \in security_analyses
    THEN RowsOf(a.id, compliance_mappings') = RowsOf(a.id, compliance_mappings)
    ELSE \E r \in Requests : \E k \in 1..Len(runs[r].flushed) :
           /\ runs[r].flushed[k].analysis = a
           /\ Cardinality(RowsOf(a.id, compliance_mappings'))
                = Len(runs[r].flushed[k].mappings)
           /\ \A j \in 1..Len(runs[r].flushed[k].mappings) :
                [analysis_id |-> a.id, position |-> j,
                 mapping |-> runs[r].flushed[k].mappings[j]] \in compliance_mappings'

\* C27: the analysis snapshot and its mapping rows are persisted atomically,
\* in the transaction that read the version: no committed state holds an
\* analysis with only part of the mappings computed for it, and a
\* single-story run that fails before its commit leaves neither an analysis
\* row nor mapping rows behind.
C27_AtomicSnapshot ==
  []NothingLeftBehind /\ [][SnapshotWithMappings]_vars

\* an analysis is committed with several mapping rows while a single-story
\* run whose mapper raised after the flush has failed
C27_Witness ==
  /\ \E a \in security_analyses :
       Cardinality(RowsOf(a.id, compliance_mappings)) >= 2
  /\ \E r \in Requests :
       /\ runs[r].kind = "single" /\ runs[r].pc = "failed"
       /\ runs[r].error = "AttributeError"
       /\ Len(runs[r].flushed) = 1

\* ------------------------------------------------------------------------
\* Properties of the single-story endpoint
\* ------------------------------------------------------------------------
\* the single-story runs whose analysis is committed
CommittedRuns ==
  {r \in Requests : runs[r].kind = "single" /\ runs[r].pc \in {"committed", "responded"}}

\* the template engine produced the data of a run exactly when its AI call
\* raised: analysis_data is the engine's result for the story, or the reply
TemplateIffAiRaised ==
  \A r \in Requests :
    runs[r].analysis_data.kind # "none" =>
      IF runs[r].analysis_data.kind = "template"
      THEN runs[r].analysis_data.result = StoryTemplates[runs[r].story]
      ELSE runs[r].analysis_data.result \in LlmReplies

\* the row a committed run has persisted is labelled "template-fallback"
\* exactly when the template engine produced its data, and with the model
\* that wrote the reply otherwise
ModelLabelled ==
  \A r \in CommittedRuns :
    \E a \in security_analyses :
      /\ a.id = runs[r].analysis[1].id
      /\ (a.ai_model_used = TemplateFallback) <=> (runs[r].analysis_data.kind = "template")
      /\ runs[r].analysis_data.kind = "ai" =>
           a.ai_model_used = runs[r].analysis_data.result._model

\* the step in which a run succeeds adds exactly one row, and no other
\* step adds any
OneRowPerSuccess ==
  Cardinality(security_analyses' \ security_analyses) =
    Cardinality({r \in Requests : runs[r].pc = "committing" /\ runs'[r].pc = "committed"})

\* C28: in a single-story run the template engine is invoked if and only if
\* the primary AI path raised an error; every successful run persists exactly
\* one new SecurityAnalysis, whose ai_model_used is 'template-fallback' exactly
\* when the template engine produced the data and names the AI model
\* otherwise.
C28_FallbackIffAiRaised ==
  [](TemplateIffAiRaised /\ ModelLabelled) /\ [][OneRowPerSuccess]_vars

\* the parts of C28 that hold: fallback exactly on an AI error, one row per
\* success, "template-fallback" exactly for template data
C28_FallbackLabel ==
  /\ TemplateIffAiRaised
  /\ \A r \in CommittedRuns :
       \E a \in security_analyses :
         /\ a.id = runs[r].analysis[1].id
         /\ (a.ai_model_used = TemplateFallback) <=> (runs[r].analysis_data.kind = "template")

\* C29: every persisted SecurityAnalysis has a risk_score in [0, 100] and a
\* version >= 1, whichever path (primary AI or template fallback) produced
\* its data.
C29_ScoreAndVersionInRange ==
  \A a \in security_analyses : a.risk_score \in 0..100 /\ a.version >= 1

\* the parts of C29 that hold: the version, and the score of template data
C29_VersionAndTemplateScore ==
  \A a \in security_analyses :
    /\ a.version >= 1
    /\ a.ai_model_used = TemplateFallback => a.risk_score \in 0..100

\* the analysis of run r is committed with the mapping rows computed for it
CommittedWithMappings(r) ==
  \E a \in security_analyses :
    /\ a = runs[r].flushed[1].analysis
    /\ RowsOf(a.id, compliance_mappings) = MappingRows(a, runs[r].flushed[1].mappings)

\* a run that has been through the webhooks, whatever they met, returns
\* its committed analysis
ReturnedDespiteWebhooks ==
  \A r \in Requests :
    runs[r].webhook # "" =>
      /\ runs[r].pc = "responded"
      /\ runs[r].response = runs[r].analysis
      /\ CommittedWithMappings(r)

\* a step that posts the event posts it for an analysis that was committed
\* with its mappings before the step
PostedAfterCommit ==
  \A p \in webhook_posts' \ webhook_posts :
    /\ p.event = AnalysisCompleted
    /\ \E r \in Requests :
         /\ runs[r].pc = "committed"
         /\ runs[r].analysis[1].id = p.analysis_id
         /\ runs[r].story = p.story_id
         /\ CommittedWithMappings(r)

\* C30: in the single-story endpoint the 'analysis.completed' webhook is
\* fired only after the analysis and its mappings have been committed, and a
\* webhook lookup or delivery failure neither rolls back the committed
\* analysis nor prevents the analysis from being returned to the caller.
C30_WebhookAfterCommit ==
  []ReturnedDespiteWebhooks /\ [][PostedAfterCommit]_vars

\* one run has returned its analysis after a failed delivery of the event,
\* another after a failed lookup; both analyses are committed with mappings
C30_Witness ==
  \E r, q \in Requests :
    /\ runs[r].webhook = "delivery_fails" /\ runs[q].webhook = "lookup_raises"
    /\ runs[r].pc = "responded" /\ runs[q].pc = "responded"
    /\ \E p \in webhook_posts : p.analysis_id = runs[r].response[1].id
    /\ \A p \in webhook_posts : p.analysis_id # runs[q].response[1].id
    /\ \A x \in {r, q} :
         /\ runs[x].response[1] \in security_analyses
         /\ RowsOf(runs[x].response[1].id, compliance_mappings) # {}

\* ------------------------------------------------------------------------
\* Properties of the project's life
\* ------------------------------------------------------------------------
\* C21: after any sequence of story creation, analysis and deletion
\* operations, every persisted SecurityAnalysis belongs to an existing story
\* and every ComplianceMapping belongs to an existing analysis: deleting a
\* story (by deleting its project) removes all of its analyses, and
\* removing an analysis removes all of its mapping rows.
C21_NoOrphans ==
  /\ \A a \in security_analyses : a.user_story_id \in user_stories
  /\ \A m \in compliance_mappings : \E a \in security_analyses : a.id = m.analysis_id
  /\ user_stories # {} => ProjectId \in projects

\* the project was deleted after a run had committed an analysis with
\* mapping rows for a story created later than the project, and a run that
\* had read that story met the deletion at its flush; no row is left
C21_Witness ==
  /\ projects = {} /\ user_stories = {}
  /\ security_analyses = {} /\ compliance_mappings = {}
  /\ \E r, q \in Requests :
       /\ runs[r].pc = "committed" /\ runs[r].story = Stories[2].id
       /\ runs[r].flushed[1].mappings # <<>>
       /\ [story |-> runs[r].story, id |-> runs[r].analysis[1].id] \in succeeded
       /\ runs[q].pc = "failed" /\ runs[q].error = "IntegrityError"

====
